---- MODULE Spec2Model ----
(***************************************************************************)
(* Verification model of the trend aggregation service.                    *)
(*                                                                         *)
(*   SpecFusion : analyze_trends (backend/trend_collector.py) applied to   *)
(*                bounded lists of raw trend records.                      *)
(*   SpecApi    : api_server.py - bootstrap load, background collector     *)
(*                thread, HTTP / socket handlers over trends_cache.        *)
(*   SpecApp    : app.py - request handlers and the periodic task that     *)
(*                call update_cache over data_cache.                       *)
(*   SpecServers: either of the two server programs.                       *)
(*   SpecPersist: api_server.py saving its cache at exit and loading it    *)
(*                at the next start.                                       *)
(*   SpecCache  : MemoryCache / FileCache (utils/cache.py) shared by       *)
(*                threads.                                                 *)
(*   SpecCached : the cached decorator (utils/cache.py) over a pure        *)
(*                method.                                                  *)
(*   SpecHttp   : HttpClient.get / async_get / async_get_multiple          *)
(*                (utils/http_client.py).                                  *)
(*   SpecCollector: TrendCollector.collect_all_trends                      *)
(*                (collectors/trend_collector.py).                         *)
(*   SpecCombine: get_combined_trending_keywords                           *)
(*                (collectors/trend_collector.py).                         *)
(*   SpecGather : ImprovedTrendCollector.collect_all                       *)
(*                (backend/trend_collector.py).                            *)
(*   SpecNews   : collect_news_api (backend/trend_collector.py).           *)
(*   SpecDaemon : run_daemon and signal_handler (main.py).                 *)
(*   SpecDamaged: FileCache.get / set on a damaged cache file              *)
(*                (utils/cache.py).                                        *)
(*   SpecBookmarks: handle_bookmarks (api_server.py).                      *)
(***************************************************************************)
EXTENDS Integers, Sequences, FiniteSets, TLC

VARIABLES
    \* ---- analyze_trends harness ----
    f_pc,           \* "idle" | "input" | "done"
    all_trends,     \* argument of analyze_trends
    analysis,       \* value returned (or exception raised) by analyze_trends
    \* ---- api_server.py ----
    trends_cache,   \* module global trends_cache (hot_keywords, topics, last_update)
    latest_trends,  \* app._latest_trends, or Unset while the attribute does not exist
    cache_file,     \* results/api_cache.json, or Unset while the file does not exist
    openai_key,     \* os.getenv("OPENAI_API_KEY") is truthy
    persisted,      \* history: the trends_cache the last save_cache was handed
    is_collecting,  \* module global is_collecting
    main_pc,        \* position of the __main__ block
    bg_pc,          \* position of background_collector.collect_trends
    bg_local,       \* locals of the current background iteration
    events,         \* trends_update events emitted through socketio
    responses,      \* last response of each query operation
    boot_local,     \* locals of collect_once once the bootstrap refresh has run
    runs,           \* number of aggregation runs started so far
    \* ---- app.py ----
    data_cache,     \* module global data_cache
    a_pc,           \* position of each app.py thread
    a_local,        \* locals of each app.py thread
    a_events,       \* trends_update events emitted by app.py
    a_resp,         \* last HTTP response of each handler thread
    snapshots,      \* snapshots published so far by collect_trends runs
    \* ---- utils/cache.py ----
    c_kind,         \* "memory" (MemoryCache) or "file" (FileCache): the instance in use
    c_store,        \* self.cache, or the *.cache files of cache_dir, by key
    c_lock,         \* holder of self.lock, "free" when nobody holds it
    c_pc,           \* position of each thread that calls the cache
    c_loc,          \* locals of the cache call each thread is in
    c_calls,        \* number of cache calls made so far
    c_last,         \* history: by key, what the last set stored, Absent after delete / clear
    \* ---- utils/cache.py: cached ----
    d_cache,        \* memory_cache.cache as the wrapper of cached uses it, by cache key
    d_last,         \* the last call of the wrapped method: receiver, argument, value returned
    \* ---- utils/http_client.py ----
    h_call,         \* the method called: "get", "async_get" or "async_get_multiple"
    h_max_retries,  \* self.max_retries
    h_urls,         \* url, or the urls argument of async_get_multiple
    h_task,         \* by position in urls: the retry loop of the request for that url
    h_done,         \* positions of the tasks that finished, in order of completion
    h_result,       \* [value |-> what the call returned or raised], Unset before
    \* ---- collectors/trend_collector.py ----
    t_max_retries,  \* self.max_retries of the TrendCollector
    t_tasks,        \* names of the adapters collect_all_trends made a task for, in order
    t_task,         \* by adapter name: the retry loop of its _collect_*_trends
    t_done,         \* positions of the helpers that returned, in order of completion
    t_result,       \* [sources |-> ..., raised |-> ...] once collect_all_trends ended
    \* ---- backend/trend_collector.py: collect_all ----
    g_task,         \* by position in the task list: "pending", "list" or "exception"
    g_done,         \* positions of the tasks that finished, in order of completion
    g_out,          \* value returned by collect_all, Unset before
    \* ---- collectors/trend_collector.py: get_combined_trending_keywords ----
    p_results,      \* argument portal_results: by portal, its list of trends
    p_combined,     \* [min_sources, max_results, value] once the call returned, Unset before
    \* ---- backend/trend_collector.py: collect_news_api ----
    r_feed,         \* what the RSS request met: status, number of items, item without title
    r_trends,       \* list returned by collect_news_api, Unset before
    \* ---- main.py: run_daemon ----
    m_args,         \* args.runs and args.interval
    m_pc,           \* position of run_daemon: "off", "loop", "running", "wait", "error_sleep", "done"
    m_completed,    \* runs_completed
    m_wait,         \* seconds left of the wait between two runs
    m_started,      \* history: number of run_collection calls started
    stop_requested, \* module global stop_requested
    \* ---- utils/cache.py: FileCache on a damaged cache file ----
    k_file,         \* what the cache file of the key holds, Absent while it does not exist
    k_last,         \* the last call on the key: what it returned or raised, Unset before
    k_calls,        \* number of calls made on the key so far
    \* ---- shared ----
    now             \* wall clock (seconds)

cachevars == <<c_kind, c_store, c_lock, c_pc, c_loc, c_calls, c_last>>
dvars == <<d_cache, d_last>>
hvars == <<h_call, h_max_retries, h_urls, h_task, h_done, h_result>>
tvars == <<t_max_retries, t_tasks, t_task, t_done, t_result>>
pvars == <<p_results, p_combined>>
gvars == <<g_task, g_done, g_out>>
rvars == <<r_feed, r_trends>>
mvars == <<m_args, m_pc, m_completed, m_wait, m_started, stop_requested>>
kvars == <<k_file, k_last, k_calls>>
morevars == <<pvars, gvars, rvars, mvars, kvars>>
libvars == <<cachevars, dvars, hvars, tvars, morevars>>
fvars   == <<f_pc, all_trends, analysis, libvars>>
apivars == <<trends_cache, latest_trends, cache_file, openai_key, persisted, is_collecting,
             main_pc, bg_pc, bg_local, boot_local, events, responses>>
appvars == <<data_cache, a_pc, a_local, a_events, a_resp, snapshots>>
vars    == <<fvars, apivars, appvars, runs, now>>

Unset == [unset |-> TRUE]

----------------------------------------------------------------------------
(* Bounds                                                                  *)

MaxRecords == 3         \* longest list of raw records handed to analyze_trends
MaxRuns == 3            \* aggregation runs started in one behaviour
MaxEvents == 1          \* trends_update events kept in one behaviour
MaxTime == 7800         \* the clock stops advancing here
TickStep == 300         \* seconds the clock advances in one step

----------------------------------------------------------------------------
(* Python values                                                           *)

PyNone == [type |-> "NoneType"]
PyInt(n) == [type |-> "int", val |-> n]
PyStr(s) == [type |-> "str", val |-> s]
PyBool(b) == [type |-> "bool", val |-> b]

\* A keyword is a sequence of characters.
\* str.lower() on one character
LowerChar(c) == IF c = "A" THEN "a" ELSE c

\* str.lower()
Lower(s) == [i \in DOMAIN s |-> LowerChar(s[i])]

\* s[:n]
Take(s, n) == SubSeq(s, 1, IF Len(s) < n THEN Len(s) ELSE n)

----------------------------------------------------------------------------
(* analyze_trends                                                          *)

TopCap == 100

\* trend.get('score', 50): the default applies only when the key is missing
DictGetScore(trend) == IF "score" \in DOMAIN trend THEN trend.score ELSE PyInt(50)

\* a + b on Python values: int + int, TypeError as soon as one side is None
PyAdd(a, b) ==
    IF a.type = "int" /\ b.type = "int" THEN PyInt(a.val + b.val)
    ELSE [type |-> "TypeError"]

\* position of key in the insertion-ordered dict keyword_scores, 0 if absent
KeyIndex(ks, key) ==
    IF \E i \in DOMAIN ks : ks[i].key = key
    THEN CHOOSE i \in DOMAIN ks : ks[i].key = key
    ELSE 0

\* body of the loop `for trend in all_trends` (url bookkeeping is not part of
\* the returned value and is left out)
FuseOne(ks, trend) ==
    LET key == Lower(trend.keyword)
        i   == KeyIndex(ks, key)
    IN  IF i # 0
        THEN [ks EXCEPT ![i] = [@ EXCEPT
                  !.score   = PyAdd(@, DictGetScore(trend)),
                  !.sources = @ \cup {trend.source},
                  !.count   = @ + 1]]
        ELSE Append(ks, [key     |-> key,
                         keyword |-> trend.keyword,
                         score   |-> DictGetScore(trend),
                         sources |-> {trend.source},
                         count   |-> 1])

\* the loop `for trend in all_trends`, records taken in list order starting
\* from the dict ks (the list is split in halves to keep the nesting shallow)
RECURSIVE FuseAll(_, _)
FuseAll(ks, all) ==
    IF all = <<>> THEN ks
    ELSE IF Len(all) = 1 THEN FuseOne(ks, all[1])
    ELSE LET h     == Len(all) \div 2
             first == FuseAll(ks, SubSeq(all, 1, h))
         IN  IF first = <<>> THEN <<>>    \* never: FuseOne adds or keeps entries
             ELSE FuseAll(first, SubSeq(all, h + 1, Len(all)))

KeywordScores(all) == FuseAll(<<>>, all)

\* key=lambda x: x['score'] * len(x['sources'])
SortKey(x) == x.score.val * Cardinality(x.sources)

\* InsertDesc that places an element ahead of the elements of equal key
InsertDescUnstable(sorted, x) ==
    LET p == Cardinality({i \in DOMAIN sorted : SortKey(sorted[i]) > SortKey(x)})
    IN  SubSeq(sorted, 1, p) \o <<x>> \o SubSeq(sorted, p + 1, Len(sorted))

\* sorted(..., reverse=True) is stable: an element goes behind the elements
\* already placed whose key is greater or equal
InsertDesc(sorted, x) ==
    LET p == Cardinality({i \in DOMAIN sorted : SortKey(sorted[i]) >= SortKey(x)})
    IN  SubSeq(sorted, 1, p) \o <<x>> \o SubSeq(sorted, p + 1, Len(sorted))

\* the elements of ks placed one after the other, in list order, into sorted
RECURSIVE InsertAll(_, _)
InsertAll(sorted, ks) ==
    IF ks = <<>> THEN sorted
    ELSE IF Len(ks) = 1 THEN InsertDesc(sorted, ks[1])
    ELSE LET h     == Len(ks) \div 2
             first == InsertAll(sorted, SubSeq(ks, 1, h))
         IN  IF first = <<>> THEN <<>>    \* never: InsertDesc adds an element
             ELSE InsertAll(first, SubSeq(ks, h + 1, Len(ks)))

SortedDesc(ks) == InsertAll(<<>>, ks)

\* Format with rank = idx of enumerate, without the + 1
FormatZeroBased(top) ==
    [idx \in DOMAIN top |-> [keyword |-> top[idx].keyword,
                             score   |-> top[idx].score.val,
                             sources |-> top[idx].sources,
                             rank    |-> idx - 1]]

\* formatted_trends (enumerate counts from 0, rank is idx + 1)
Format(top) ==
    [idx \in DOMAIN top |-> [keyword |-> top[idx].keyword,
                             score   |-> top[idx].score.val,
                             sources |-> top[idx].sources,
                             rank    |-> idx]]

analyze_trends(all) ==
    LET ks == KeywordScores(all)
    IN  IF \E i \in DOMAIN ks : ks[i].score.type # "int"
        THEN [status |-> "TypeError"]
        ELSE [status          |-> "ok",
              hot_keywords    |-> Format(Take(SortedDesc(ks), TopCap)),
              total_collected |-> Len(all),
              unique_keywords |-> Len(ks)]

----------------------------------------------------------------------------
(* analyze_trends harness: the argument is built record by record from a   *)
(* bounded universe, then the function is applied.                         *)

Keywords == {<<"A">>, <<"a">>, <<"a", " ">>, <<"b">>}
FSources == {"youtube", "news"}
ScoreValues == {PyNone, PyInt(0), PyInt(30)}

RawRecords ==
    [keyword : Keywords, source : FSources]
    \cup [keyword : Keywords, source : FSources, score : ScoreValues]

\* letters of the keywords of long inputs
Letters == <<"b", "c", "d", "e", "f", "g", "h", "i", "j", "k", "l">>

\* a list of n records with n different keywords, scores 0..2
LongInput(n) ==
    [i \in 1..n |->
        [keyword |-> <<Letters[((i - 1) \div Len(Letters)) + 1],
                       Letters[((i - 1) % Len(Letters)) + 1]>>,
         source  |-> IF i % 2 = 0 THEN "youtube" ELSE "news",
         score   |-> PyInt(i % 3)]]

\* lengths around the cut of sorted_keywords[:100]
LongLengths == {TopCap - 1, TopCap, TopCap + 1}

\* the cache module loaded, no call made
CThreads == {"t1", "t2"}
CKeys == {"k1", "k2"}
Absent == [absent |-> TRUE]
NoCall ==
    [op |-> "none", key |-> "none", value |-> PyNone, ttl |-> 0, expires_at |-> 0,
     before |-> Absent, t_check |-> 0, item |-> Absent, expired_keys |-> {},
     result |-> Unset]

CacheIdle ==
    /\ c_kind = "memory"
    /\ c_store = [k \in CKeys |-> Absent]
    /\ c_lock = "free"
    /\ c_pc = [t \in CThreads |-> "off"]
    /\ c_loc = [t \in CThreads |-> NoCall]
    /\ c_calls = 0
    /\ c_last = [k \in CKeys |-> Absent]

\* memory_cache = MemoryCache(): nothing cached, no wrapped call made
CachedIdle == d_cache = [k \in {} |-> Absent] /\ d_last = Unset

\* an HttpClient on which no request is made
HttpIdle ==
    /\ h_call = "none" /\ h_max_retries = 0 /\ h_urls = <<>>
    /\ h_task = <<>> /\ h_done = <<>> /\ h_result = Unset

\* the adapters of TrendCollector, in the order collect_all_trends lists them
Sources == <<"youtube", "news", "portal", "google_trends">>

\* the loop of one _collect_*_trends before its first attempt
NewCollect == [state |-> "running", attempt |-> 0, log |-> <<>>, value |-> Unset]

\* a TrendCollector on which collect_all_trends is not called
CollectorIdle ==
    /\ t_max_retries = 0 /\ t_tasks = <<>>
    /\ t_task = [i \in 1..Len(Sources) |-> NewCollect]
    /\ t_done = <<>>
    /\ t_result = Unset

\* the portals of portal_results, in the order of its items()
Portals == <<"naver", "daum">>

\* get_combined_trending_keywords not called
CombineIdle ==
    /\ p_results = [s \in {Portals[i] : i \in DOMAIN Portals} |-> <<>>]
    /\ p_combined = Unset

\* collect_all of ImprovedTrendCollector not running
GatherIdle == g_task = <<>> /\ g_done = <<>> /\ g_out = Unset

\* collect_news_api not called
NewsIdle == r_feed = Unset /\ r_trends = Unset

\* main.py not started
DaemonIdle ==
    /\ m_args = [runs |-> 0, interval |-> 0] /\ m_pc = "off" /\ m_completed = 0
    /\ m_wait = 0 /\ m_started = 0 /\ stop_requested = FALSE

\* FileCache of the damaged-file model not in use
DamagedIdle == k_file = Absent /\ k_last = Unset /\ k_calls = 0

MoreIdle == CombineIdle /\ GatherIdle /\ NewsIdle /\ DaemonIdle /\ DamagedIdle

LibIdle == CacheIdle /\ CachedIdle /\ HttpIdle /\ CollectorIdle /\ MoreIdle

FIdle == /\ f_pc = "idle" /\ all_trends = <<>> /\ analysis = Unset /\ LibIdle

AddRecord ==
    /\ f_pc = "input"
    /\ Len(all_trends) < MaxRecords
    /\ \E r \in RawRecords : all_trends' = Append(all_trends, r)
    /\ UNCHANGED <<f_pc, analysis, libvars, apivars, appvars, runs, now>>

\* the argument is one of the long lists
AddBulk ==
    /\ f_pc = "input"
    /\ all_trends = <<>>
    /\ \E n \in LongLengths : all_trends' = LongInput(n)
    /\ UNCHANGED <<f_pc, analysis, libvars, apivars, appvars, runs, now>>

Analyze ==
    /\ f_pc = "input"
    /\ analysis' = analyze_trends(all_trends)
    /\ f_pc' = "done"
    /\ UNCHANGED <<all_trends, libvars, apivars, appvars, runs, now>>

----------------------------------------------------------------------------
(* api_server.py                                                           *)

StartTime == 7200       \* wall clock when the process starts

\* datetime.isoformat() / datetime.fromisoformat()
IsoFormat(t) == [type |-> "str", iso |-> t]
FromIso(s) == s.iso

\* task order of ImprovedTrendCollector.collect_all
Adapters == <<"youtube", "naver", "news", "google", "daum">>

\* what each adapter returns when its upstream answers
AdapterData(a) ==
    CASE a = "youtube" -> <<[keyword |-> <<"A">>, source |-> "youtube",
                             score |-> PyInt(0), url |-> "u_youtube"]>>
      [] a = "naver"   -> <<[keyword |-> <<"a">>, source |-> "naver",
                             score |-> PyInt(50), url |-> "u_naver"]>>
      [] a = "news"    -> <<[keyword |-> <<"b">>, source |-> "news",
                             score |-> PyInt(80), url |-> "u_news"]>>
      [] a = "google"  -> <<[keyword |-> <<"a", " ">>, source |-> "google",
                             score |-> PyInt(100)]>>
      [] a = "daum"    -> <<[keyword |-> <<"b">>, source |-> "daum",
                             score |-> PyInt(80)]>>

\* the loop over results: lists are concatenated in task order, anything
\* else (an exception, None) is skipped
RECURSIVE AllTrends(_, _)
AllTrends(ok, i) ==
    IF i > Len(Adapters) THEN <<>>
    ELSE (IF Adapters[i] \in ok THEN AdapterData(Adapters[i]) ELSE <<>>)
         \o AllTrends(ok, i + 1)

\* ImprovedTrendCollector.collect_all; ok is the set of adapters that
\* returned a list
collect_all(ok) ==
    LET all == AllTrends(ok, 1)
    IN  [timestamp |-> IsoFormat(now), total |-> Len(all), trends |-> all]

\* which adapters return a list in one run of collect_all
AdapterOutcomes ==
    {{}, {"naver"}, {"youtube", "naver"}, {Adapters[i] : i \in DOMAIN Adapters}}

EmptyCache ==
    [hot_keywords |-> <<>>, topics |-> <<>>, last_update |-> PyNone,
     bookmarks |-> <<>>]

\* contents results/api_cache.json may have when the process starts
OldKeyword == [keyword |-> <<"b">>, score |-> 30, sources |-> {"news"}, rank |-> 1]
OldTopic ==
    [id |-> "topic_1", topic |-> "old", keywords |-> <<<<"b">>>>,
     hook_copies |-> <<"hook">>]
SavedCache(age) ==
    [hot_keywords |-> <<OldKeyword>>, topics |-> <<OldTopic>>,
     last_update |-> IsoFormat(StartTime - age), bookmarks |-> <<>>]
\* a file written by a version that stored the keyword list alone
LegacyFile == [hot_keywords |-> <<OldKeyword>>]

\* a dump that leaves last_update out of the file
JsonDumpNoTimestamp(d) ==
    [k \in DOMAIN d \ {"last_update"} |-> [json |-> "array", items |-> d[k]]]

\* json.dump of the cache dict: None is written as null, a string as a JSON
\* string, lists and their elements as JSON arrays and objects
JsonDump(d) ==
    [k \in DOMAIN d |->
        IF k = "last_update"
        THEN (IF d[k] = PyNone THEN [json |-> "null"]
              ELSE [json |-> "string", text |-> d[k].iso])
        ELSE [json |-> "array", items |-> d[k]]]

\* json.load of such a file
JsonLoad(doc) ==
    [k \in DOMAIN doc |->
        CASE doc[k].json = "null"   -> PyNone
          [] doc[k].json = "string" -> [type |-> "str", iso |-> doc[k].text]
          [] doc[k].json = "array"  -> doc[k].items]

InitialFiles ==
    {Unset, JsonDump(SavedCache(7200)), JsonDump(SavedCache(60)), JsonDump(LegacyFile)}

\* dict.update(json.load(f))
DictUpdate(d, f) == [k \in DOMAIN d |-> IF k \in DOMAIN f THEN f[k] ELSE d[k]]

\* timedelta(hours=1), in seconds
StaleThreshold == 3600

ApiInit ==
    /\ trends_cache = EmptyCache
    /\ latest_trends = Unset
    /\ cache_file \in InitialFiles
    /\ openai_key \in BOOLEAN
    /\ persisted = Unset
    /\ is_collecting = FALSE
    /\ main_pc = "load"
    /\ bg_pc = "not_started"
    /\ bg_local = Unset
    /\ boot_local = Unset
    /\ events = <<>>
    /\ responses = Unset

ApiIdle ==
    /\ trends_cache = EmptyCache
    /\ latest_trends = Unset
    /\ cache_file = Unset
    /\ openai_key = FALSE
    /\ persisted = Unset
    /\ is_collecting = FALSE
    /\ main_pc = "off"
    /\ bg_pc = "off"
    /\ bg_local = Unset
    /\ boot_local = Unset
    /\ events = <<>>
    /\ responses = Unset

\* load_initial_data without the staleness test: the server starts on
\* whatever the file held
LoadInitialDataNoRefresh ==
    /\ main_pc = "load"
    /\ trends_cache' = IF cache_file # Unset
                       THEN DictUpdate(trends_cache, JsonLoad(cache_file))
                       ELSE trends_cache
    /\ main_pc' = "start"
    /\ UNCHANGED <<latest_trends, cache_file, openai_key, persisted, is_collecting, bg_pc,
                   bg_local, boot_local, events, responses, runs, now, fvars, appvars>>

\* load_initial_data up to the call of collect_once
LoadInitialData ==
    /\ main_pc = "load"
    /\ LET loaded == IF cache_file # Unset
                     THEN DictUpdate(trends_cache, JsonLoad(cache_file))
                     ELSE trends_cache
       IN  /\ trends_cache' = loaded
           /\ main_pc' = IF \/ loaded.last_update = PyNone
                            \/ now - FromIso(loaded.last_update) > StaleThreshold
                         THEN "collect_once"
                         ELSE "start"
    /\ UNCHANGED <<latest_trends, cache_file, openai_key, persisted, is_collecting, bg_pc,
                   bg_local, boot_local, events, responses, runs, now, fvars, appvars>>

\* collect_once, run to completion by asyncio.run before the server starts
CollectOnce ==
    /\ main_pc = "collect_once"
    /\ \E ok \in AdapterOutcomes :
         LET result   == collect_all(ok)
             an       == analyze_trends(result.trends)
             hot      == Take(an.hot_keywords, 30)
         IN  /\ boot_local' = [result |-> result, hot_keywords |-> hot]
             /\ trends_cache' = [trends_cache EXCEPT
                                   !.hot_keywords = hot,
                                   !.last_update = IsoFormat(now)]
    /\ runs' = runs + 1
    /\ main_pc' = "start"
    /\ UNCHANGED <<latest_trends, cache_file, openai_key, persisted, is_collecting, bg_pc,
                   bg_local, events, responses, now, fvars, appvars>>

\* __main__: is_collecting = True; collector_thread.start(); socketio.run(...)
StartServer ==
    /\ main_pc = "start"
    /\ is_collecting' = TRUE
    /\ bg_pc' = "loop"
    /\ main_pc' = "serving"
    /\ UNCHANGED <<trends_cache, latest_trends, cache_file, openai_key, persisted, bg_local,
                   boot_local, events, responses, runs, now, fvars, appvars>>

\* one pass of `while is_collecting:` up to the await of collect_all
BgBegin ==
    /\ bg_pc = "loop"
    /\ main_pc \in {"serving", "save"}
    /\ IF is_collecting
       THEN /\ runs < MaxRuns
            /\ bg_pc' = "collecting"
            /\ runs' = runs + 1
       ELSE /\ bg_pc' = "returned"
            /\ runs' = runs
    /\ UNCHANGED <<trends_cache, latest_trends, cache_file, openai_key, persisted,
                   is_collecting, main_pc, bg_local, boot_local, events,
                   responses, now, fvars, appvars>>

\* collect_all returns; analysis, hot_keywords and keywords_for_clustering
\* are computed (lines 43-52)
BgAggregate ==
    /\ bg_pc = "collecting"
    /\ main_pc \in {"serving", "save"}
    /\ \E ok \in AdapterOutcomes :
         LET result == collect_all(ok)
             hot    == Take(analyze_trends(result.trends).hot_keywords, 30)
             top20  == Take(hot, 20)
         IN  bg_local' = [result |-> result,
                          hot_keywords |-> hot,
                          keywords_for_clustering |->
                              [i \in DOMAIN top20 |-> top20[i].keyword],
                          wake |-> 0]
    /\ bg_pc' = "line53"
    /\ UNCHANGED <<trends_cache, latest_trends, cache_file, openai_key, persisted,
                   is_collecting, main_pc, boot_local, events, responses,
                   runs, now, fvars, appvars>>

\* line 53 calls normalize(deduplicate(...)); neither name is defined or
\* imported in the module, so NameError is raised, caught by `except
\* Exception` (line 96), and the iteration goes to asyncio.sleep(300).
\* Lines 54-94 (clustering, the cache update, app._latest_trends, the
\* broadcast) are never reached.
BgNameError ==
    /\ bg_pc = "line53"
    /\ main_pc \in {"serving", "save"}
    /\ bg_pc' = "sleep"
    /\ bg_local' = [bg_local EXCEPT !.wake = now + 300]
    /\ UNCHANGED <<trends_cache, latest_trends, cache_file, openai_key, persisted,
                   is_collecting, main_pc, boot_local, events, responses,
                   runs, now, fvars, appvars>>

\* asyncio.sleep(300) returns
BgWake ==
    /\ bg_pc = "sleep"
    /\ main_pc \in {"serving", "save"}
    /\ now >= bg_local.wake
    /\ bg_pc' = "loop"
    /\ UNCHANGED <<trends_cache, latest_trends, cache_file, openai_key, persisted,
                   is_collecting, main_pc, bg_local, boot_local, events,
                   responses, runs, now, fvars, appvars>>

\* the query operations leave everything but the response alone
QueryFrame ==
    UNCHANGED <<trends_cache, latest_trends, cache_file, openai_key, persisted,
                is_collecting, main_pc, bg_pc, bg_local, boot_local, runs, now, fvars, appvars>>

\* GET /api/keywords/hot?n=
get_hot_keywords ==
    /\ main_pc = "serving"
    /\ \E n \in {1, 30} :
         LET keywords == Take(trends_cache.hot_keywords, n)
         IN  responses' = [op |-> "hot_keywords", success |-> TRUE,
                           data |-> keywords,
                           last_update |-> trends_cache.last_update,
                           total |-> Len(keywords)]
    /\ UNCHANGED events
    /\ QueryFrame

\* GET /api/topics
get_topics ==
    /\ main_pc = "serving"
    /\ responses' = [op |-> "topics", success |-> TRUE,
                     data |-> trends_cache.topics,
                     last_update |-> trends_cache.last_update,
                     total |-> Len(trends_cache.topics)]
    /\ UNCHANGED events
    /\ QueryFrame

\* GET /api/topics/<topic_id>/hooks
get_topic_hooks ==
    /\ main_pc = "serving"
    /\ \E topic_id \in {"topic_1", "topic_2"} :
         LET found == SelectSeq(trends_cache.topics, LAMBDA t : t.id = topic_id)
         IN  responses' =
               IF found = <<>>
               THEN [op |-> "topic_hooks", success |-> FALSE, code |-> 404]
               ELSE [op |-> "topic_hooks", success |-> TRUE,
                     data |-> [topic |-> found[1].topic,
                               hook_copies |-> found[1].hook_copies]]
    /\ UNCHANGED events
    /\ QueryFrame

\* sum(trend.get('score', 0) for trend in related_trends)
RECURSIVE TotalScore(_)
TotalScore(related) ==
    IF related = <<>> THEN 0
    ELSE (IF "score" \in DOMAIN Head(related) THEN Head(related).score.val ELSE 0)
         + TotalScore(Tail(related))

\* body of get_keyword_details
KeywordDetails(keyword) ==
    LET all_trends_ == IF latest_trends # Unset THEN latest_trends.trends ELSE <<>>
        related == SelectSeq(all_trends_,
                             LAMBDA t : Lower(t.keyword) = Lower(keyword))
    IN  IF latest_trends # Unset /\ related # <<>>
        THEN [op |-> "keyword_details", success |-> TRUE, keyword |-> keyword,
              sources |-> {related[i].source : i \in DOMAIN related},
              total_score |-> TotalScore(related),
              related_count |-> Len(related)]
        ELSE [op |-> "keyword_details", success |-> FALSE, keyword |-> keyword,
              sources |-> {}, total_score |-> 0, related_count |-> 0]

\* GET /api/keywords/details/<keyword>
get_keyword_details ==
    /\ main_pc = "serving"
    /\ \E keyword \in Keywords : responses' = KeywordDetails(keyword)
    /\ UNCHANGED events
    /\ QueryFrame

\* GET /api/status
get_status ==
    /\ main_pc = "serving"
    /\ responses' = [op |-> "status", success |-> TRUE,
                     is_collecting |-> is_collecting,
                     last_update |-> trends_cache.last_update,
                     total_keywords |-> Len(trends_cache.hot_keywords),
                     total_topics |-> Len(trends_cache.topics),
                     api_key_configured |-> openai_key]
    /\ UNCHANGED events
    /\ QueryFrame

\* socket event request_update: the current cache is sent to the client
handle_request_update ==
    /\ main_pc = "serving"
    /\ Len(events) < MaxEvents
    /\ events' = Append(events,
                   [to |-> "client",
                    hot_keywords |-> Take(trends_cache.hot_keywords, 10),
                    topics |-> Take(trends_cache.topics, 5),
                    timestamp |-> trends_cache.last_update])
    /\ UNCHANGED responses
    /\ QueryFrame

MaxBookmarks == 3       \* bookmarks the list holds at most in one behaviour

\* f"bookmark_{n}"
BookmarkId(n) == [type |-> "str", prefix |-> "bookmark_", n |-> n]

\* request.json of a POST: topic and copy, each possibly missing
BookmarkData == [topic : {PyNone, PyStr("old")}, copy : {PyStr("hook")}]

\* request.args.get('id') of a DELETE
BookmarkArgs == {PyNone} \cup {BookmarkId(n) : n \in 1..MaxBookmarks}

BookmarkFrame ==
    UNCHANGED <<latest_trends, cache_file, openai_key, persisted, is_collecting, main_pc,
                bg_pc, bg_local, boot_local, events, runs, now, fvars, appvars>>

\* GET /api/bookmarks (lines 159-163)
BookmarksGet ==
    /\ main_pc = "serving"
    /\ responses' = [op |-> "bookmarks_get", success |-> TRUE,
                     data |-> trends_cache.bookmarks]
    /\ UNCHANGED trends_cache
    /\ BookmarkFrame

\* POST /api/bookmarks (lines 165-178): the id is made from the length of
\* the list
BookmarksPost ==
    /\ main_pc = "serving"
    /\ Len(trends_cache.bookmarks) < MaxBookmarks
    /\ \E data \in BookmarkData :
         LET bookmark == [id |-> BookmarkId(Len(trends_cache.bookmarks) + 1),
                          topic |-> data.topic,
                          copy |-> data.copy,
                          created_at |-> IsoFormat(now)]
         IN  /\ trends_cache' = [trends_cache EXCEPT
                                   !.bookmarks = Append(trends_cache.bookmarks, bookmark)]
             /\ responses' = [op |-> "bookmarks_post", success |-> TRUE, data |-> bookmark]
    /\ BookmarkFrame

\* DELETE /api/bookmarks?id= (lines 180-190): every bookmark of that id
\* is left out of the new list
BookmarksDelete ==
    /\ main_pc = "serving"
    /\ \E bookmark_id \in BookmarkArgs :
         /\ trends_cache' = [trends_cache EXCEPT
                               !.bookmarks = SelectSeq(trends_cache.bookmarks,
                                                       LAMBDA b : b.id # bookmark_id)]
         /\ responses' = [op |-> "bookmarks_delete", success |-> TRUE,
                          id |-> bookmark_id, message |-> "Bookmark deleted"]
    /\ BookmarkFrame

handle_bookmarks == BookmarksGet \/ BookmarksPost \/ BookmarksDelete

\* the server is up, on an empty cache or on a snapshot loaded from the file
BookmarksInit ==
    /\ trends_cache \in {EmptyCache, SavedCache(60)}
    /\ latest_trends = Unset
    /\ cache_file = Unset
    /\ openai_key = FALSE
    /\ persisted = Unset
    /\ is_collecting = TRUE
    /\ main_pc = "serving"
    /\ bg_pc = "off"
    /\ bg_local = Unset
    /\ boot_local = Unset
    /\ events = <<>>
    /\ responses = Unset

\* socketio.run returns (Ctrl+C): finally: is_collecting = False
BeginShutdown ==
    /\ main_pc = "serving"
    /\ is_collecting' = FALSE
    /\ main_pc' = "save"
    /\ UNCHANGED <<trends_cache, latest_trends, cache_file, openai_key, persisted, bg_pc,
                   bg_local, boot_local, events, responses, runs, now, fvars, appvars>>

\* save_cache: json.dump(trends_cache); the process then exits and the
\* daemon thread dies with it
save_cache ==
    /\ main_pc = "save"
    /\ cache_file' = JsonDump(trends_cache)
    /\ persisted' = trends_cache
    /\ main_pc' = "exited"
    /\ UNCHANGED <<trends_cache, latest_trends, openai_key, is_collecting, bg_pc,
                   bg_local, boot_local, events, responses, runs, now, fvars, appvars>>

\* the program is started again after it exited: the module globals are
\* initialised anew, the file and the environment are what they were
Restart ==
    /\ main_pc = "exited"
    /\ trends_cache' = EmptyCache
    /\ latest_trends' = Unset
    /\ is_collecting' = FALSE
    /\ main_pc' = "load"
    /\ bg_pc' = "not_started"
    /\ bg_local' = Unset
    /\ boot_local' = Unset
    /\ events' = <<>>
    /\ responses' = Unset
    /\ UNCHANGED <<cache_file, openai_key, persisted, runs, now, fvars, appvars>>

\* time passes
ApiTick ==
    /\ main_pc \in {"serving", "save"}
    /\ now < MaxTime
    /\ now' = now + TickStep
    /\ UNCHANGED <<apivars, runs, fvars, appvars>>

ApiNext ==
    \/ LoadInitialData
    \/ CollectOnce
    \/ StartServer
    \/ BgBegin
    \/ BgAggregate
    \/ BgNameError
    \/ BgWake
    \/ get_hot_keywords
    \/ get_topics
    \/ get_topic_hooks
    \/ get_keyword_details
    \/ get_status
    \/ handle_request_update
    \/ BeginShutdown
    \/ save_cache
    \/ ApiTick

----------------------------------------------------------------------------
(* app.py                                                                  *)

UPDATE_INTERVAL == 300

\* values collect_all_trends may return: results['sources'] holds one entry
\* per collector that was initialised (empty when its retries ran out)
AppResults ==
    { [sources |-> [youtube |-> <<>>, news |-> <<>>, portal |-> <<>>,
                    google_trends |-> <<>>]],
      [sources |-> [youtube |-> <<[title |-> <<"A">>]>>,
                    news |-> <<>>,
                    portal |-> <<[source |-> "naver",
                                  items |-> <<[keyword |-> <<"a">>, rank |-> 1]>>]>>,
                    google_trends |-> <<[keyword |-> <<"b">>, rank |-> 2,
                                         query |-> <<"b">>]>>]],
      [sources |-> [news |-> <<[source |-> "naver",
                                items |-> <<[title |-> <<"a", " ">>]>>]>>,
                    portal |-> <<>>,
                    google_trends |-> <<[keyword |-> <<"b">>, rank |-> 1,
                                         query |-> <<"b">>]>>]] }

\* lines 205-214
YoutubeKeywords(videos) ==
    [i \in DOMAIN videos |->
        [rank |-> i, keyword |-> videos[i].title, query |-> videos[i].title,
         sources |-> <<"youtube">>, score |-> 100 - (i - 1),
         platform |-> "youtube"]]

\* x in list
InSeq(x, seq) == \E i \in DOMAIN seq : seq[i] = x

\* lines 221-241 and 247-267: merge one ranked item of `source` into hot
MergeItem(hot, item, source, platform, query) ==
    LET hits == {i \in DOMAIN hot : Lower(hot[i].keyword) = Lower(item.keyword)}
    IN  IF hits # {}
        THEN LET i == CHOOSE j \in hits : \A k \in hits : j <= k
             IN  IF InSeq(source, hot[i].sources)
                 THEN hot
                 ELSE [hot EXCEPT ![i] = [@ EXCEPT
                          !.sources = Append(@, source),
                          !.score = @ + (100 - item.rank)]]
        ELSE Append(hot, [rank |-> item.rank, keyword |-> item.keyword,
                          query |-> query, sources |-> <<source>>,
                          score |-> 100 - item.rank, platform |-> platform])

RECURSIVE MergeItems(_, _, _, _)
MergeItems(hot, items, source, platform) ==
    IF items = <<>> THEN hot
    ELSE MergeItems(MergeItem(hot, Head(items), source, platform,
                              IF platform = "google_trends"
                              THEN Head(items).query ELSE Head(items).keyword),
                    Tail(items), source, platform)

\* lines 218-241
RECURSIVE PortalKeywords(_, _)
PortalKeywords(hot, portal) ==
    IF portal = <<>> THEN hot
    ELSE PortalKeywords(MergeItems(hot, Head(portal).items, Head(portal).source,
                                   Head(portal).source),
                        Tail(portal))

\* lines 271-284
RECURSIVE NewsKeywords(_, _)
NewsKeywords(hot, news) ==
    IF news = <<>> THEN hot
    ELSE LET src == Head(news).source
             items == Head(news).items
         IN  NewsKeywords(
               hot \o [i \in DOMAIN items |->
                          [rank |-> i, keyword |-> items[i].title,
                           query |-> items[i].title,
                           sources |-> <<"news", src>>, score |-> 100 - (i - 1),
                           platform |-> "news_" \o src]],
               Tail(news))

\* hot_keywords.sort(key=score, reverse=True): stable
RECURSIVE InsertByScore(_, _)
InsertByScore(sorted, x) ==
    IF sorted = <<>> THEN <<x>>
    ELSE IF x.score > Head(sorted).score
         THEN <<x>> \o sorted
         ELSE <<Head(sorted)>> \o InsertByScore(Tail(sorted), x)

RECURSIVE SortByScore(_)
SortByScore(hot) ==
    IF hot = <<>> THEN <<>>
    ELSE InsertByScore(SortByScore(SubSeq(hot, 1, Len(hot) - 1)), hot[Len(hot)])

\* lines 290-291
Rerank(hot) == [i \in DOMAIN hot |-> [hot[i] EXCEPT !.rank = i]]

\* collect_trends lines 201-291 (the collected_at stamp of an entry is left out)
BuildHotKeywords(results) ==
    LET src == results.sources
        h1 == IF "youtube" \in DOMAIN src THEN YoutubeKeywords(src.youtube) ELSE <<>>
        h2 == IF "portal" \in DOMAIN src THEN PortalKeywords(h1, src.portal) ELSE h1
        h3 == IF "google_trends" \in DOMAIN src
              THEN MergeItems(h2, src.google_trends, "google", "google_trends")
              ELSE h2
        h4 == IF "news" \in DOMAIN src THEN NewsKeywords(h3, src.news) ELSE h3
    IN  Rerank(SortByScore(h4))

\* generate_topics: five fixed topics, whatever the keywords
generate_topics(hot) ==
    <<[topic |-> "ai"], [topic |-> "economy"], [topic |-> "digital"],
      [topic |-> "social"], [topic |-> "sustainable"]>>

\* is_cache_expired
is_cache_expired ==
    IF data_cache.last_update = PyNone THEN TRUE
    ELSE now - FromIso(data_cache.last_update) > UPDATE_INTERVAL

\* lines 69-75: the entries one of whose sources is `platform`, or all of
\* them when no platform is asked for
FilterPlatform(hot, platform) ==
    IF platform # "none"
    THEN SelectSeq(hot, LAMBDA kw : InSeq(platform, kw.sources))
    ELSE hot

\* NeedsRefresh without its condition: every request refreshes
NeedsRefreshAlways(op) == TRUE

\* lines 62 and 87: the handler refreshes before it answers
NeedsRefresh(op) ==
    \/ (op = "hot_keywords" /\ data_cache.hot_keywords = <<>>)
    \/ (op = "topics" /\ data_cache.topics = <<>>)
    \/ is_cache_expired

Handlers == {"h1"}

\* requests the handlers serve: <<endpoint, max, platform>>
Queries == {<<"hot_keywords", 20, "none">>, <<"hot_keywords", 1, "youtube">>,
            <<"topics", 5, "none">>}
AppThreads == {"main", "periodic"} \cup Handlers

NoLocal ==
    [op |-> "none", max |-> 0, platform |-> "none", hot_keywords |-> <<>>,
     topics |-> <<>>, filtered |-> <<>>, timestamp |-> PyNone, wake |-> 0]
NoResponse == [op |-> "none"]
EmptySnapshot == [hot_keywords |-> <<>>, topics |-> <<>>, last_update |-> PyNone]

AppInit ==
    /\ data_cache = EmptySnapshot
    /\ a_pc = [t \in AppThreads |->
                 IF t = "main" THEN "update"
                 ELSE IF t = "periodic" THEN "not_started" ELSE "idle"]
    /\ a_local = [t \in AppThreads |-> NoLocal]
    /\ a_events = <<>>
    /\ a_resp = [t \in Handlers |-> NoResponse]
    /\ snapshots = {EmptySnapshot}

AppIdle ==
    /\ data_cache = EmptySnapshot
    /\ a_pc = [t \in AppThreads |-> "off"]
    /\ a_local = [t \in AppThreads |-> NoLocal]
    /\ a_events = <<>>
    /\ a_resp = [t \in Handlers |-> NoResponse]
    /\ snapshots = {EmptySnapshot}

AppOnly == UNCHANGED <<fvars, apivars>>

\* update_cache: a new event loop runs collect_trends; nothing checks whether
\* another thread is already inside it
AppStartRun(t) ==
    /\ a_pc[t] = "update"
    /\ runs < MaxRuns
    /\ runs' = runs + 1
    /\ a_pc' = [a_pc EXCEPT ![t] = "collecting"]
    /\ UNCHANGED <<data_cache, a_local, a_events, a_resp, snapshots, now>>
    /\ AppOnly

\* collect_all_trends returns; hot_keywords and topics are built (198-294)
AppCollected(t) ==
    /\ a_pc[t] = "collecting"
    /\ \E results \in AppResults :
         LET hot == BuildHotKeywords(results)
         IN  a_local' = [a_local EXCEPT ![t] = [@ EXCEPT
                            !.hot_keywords = hot,
                            !.topics = generate_topics(hot)]]
    /\ a_pc' = [a_pc EXCEPT ![t] = "line297"]
    /\ UNCHANGED <<data_cache, a_events, a_resp, snapshots, runs, now>>
    /\ AppOnly

\* data_cache['hot_keywords'] = hot_keywords
AppWriteHotKeywords(t) ==
    /\ a_pc[t] = "line297"
    /\ data_cache' = [data_cache EXCEPT !.hot_keywords = a_local[t].hot_keywords]
    /\ a_pc' = [a_pc EXCEPT ![t] = "line298"]
    /\ UNCHANGED <<a_local, a_events, a_resp, snapshots, runs, now>>
    /\ AppOnly

\* data_cache['topics'] = topics
AppWriteTopics(t) ==
    /\ a_pc[t] = "line298"
    /\ data_cache' = [data_cache EXCEPT !.topics = a_local[t].topics]
    /\ a_pc' = [a_pc EXCEPT ![t] = "line299"]
    /\ UNCHANGED <<a_local, a_events, a_resp, snapshots, runs, now>>
    /\ AppOnly

\* data_cache['last_update'] = datetime.now().isoformat(); the run has now
\* published its snapshot
AppWriteLastUpdate(t) ==
    /\ a_pc[t] = "line299"
    /\ data_cache' = [data_cache EXCEPT !.last_update = IsoFormat(now)]
    /\ snapshots' = snapshots \cup
                      {[hot_keywords |-> a_local[t].hot_keywords,
                        topics |-> a_local[t].topics,
                        last_update |-> IsoFormat(now)]}
    /\ a_pc' = [a_pc EXCEPT ![t] = "line302"]
    /\ UNCHANGED <<a_local, a_events, a_resp, runs, now>>
    /\ AppOnly

\* socketio.emit('trends_update', ...) and the return of update_cache to its
\* caller: __main__ (which starts periodic_update and serves), the periodic
\* task (which sleeps again) or a request handler (which goes on to answer)
AppEmit(t) ==
    /\ a_pc[t] = "line302"
    /\ a_events' = Append(a_events,
                     [hot_keywords |-> Take(a_local[t].hot_keywords, 20),
                      topics |-> a_local[t].topics])
    /\ IF t = "main"
       THEN /\ a_pc' = [a_pc EXCEPT !["main"] = "serving", !["periodic"] = "sleep"]
            /\ a_local' = [a_local EXCEPT
                             !["periodic"].wake = now + UPDATE_INTERVAL]
       ELSE IF t = "periodic"
       THEN /\ a_pc' = [a_pc EXCEPT ![t] = "sleep"]
            /\ a_local' = [a_local EXCEPT ![t].wake = now + UPDATE_INTERVAL]
       ELSE /\ a_pc' = [a_pc EXCEPT ![t] = "read"]
            /\ a_local' = a_local
    /\ UNCHANGED <<data_cache, a_resp, snapshots, runs, now>>
    /\ AppOnly

\* periodic_update: socketio.sleep(UPDATE_INTERVAL) returns
AppWake ==
    /\ a_pc["periodic"] = "sleep"
    /\ now >= a_local["periodic"].wake
    /\ a_pc' = [a_pc EXCEPT !["periodic"] = "update"]
    /\ UNCHANGED <<data_cache, a_local, a_events, a_resp, snapshots, runs, now>>
    /\ AppOnly

\* a request for /api/keywords/hot or /api/topics arrives: lines 62 and 87
AppRequest(t) ==
    /\ a_pc["main"] = "serving"
    /\ a_pc[t] = "idle"
    /\ \E q \in Queries :
         LET op == q[1]  max == q[2]  platform == q[3] IN
         /\ a_local' = [a_local EXCEPT ![t] =
                          [NoLocal EXCEPT !.op = op, !.max = max,
                                          !.platform = platform]]
         /\ a_pc' = [a_pc EXCEPT ![t] =
                       IF NeedsRefresh(op) THEN "update" ELSE "read"]
    /\ UNCHANGED <<data_cache, a_events, a_resp, snapshots, runs, now>>
    /\ AppOnly

\* lines 69-75 (hot keywords: the list is read and filtered) and line 95
\* (topics: the timestamp is read first)
AppRead(t) ==
    /\ a_pc[t] = "read"
    /\ a_local' = [a_local EXCEPT ![t] =
         IF a_local[t].op = "hot_keywords"
         THEN [@ EXCEPT !.filtered =
                 FilterPlatform(data_cache.hot_keywords, a_local[t].platform)]
         ELSE [@ EXCEPT !.timestamp = data_cache.last_update]]
    /\ a_pc' = [a_pc EXCEPT ![t] = "respond"]
    /\ UNCHANGED <<data_cache, a_events, a_resp, snapshots, runs, now>>
    /\ AppOnly

\* lines 77-81 (the timestamp is read now) and line 96 (the topics are)
AppRespond(t) ==
    /\ a_pc[t] = "respond"
    /\ a_resp' = [a_resp EXCEPT ![t] =
         IF a_local[t].op = "hot_keywords"
         THEN [op |-> "hot_keywords", platform |-> a_local[t].platform,
               max |-> a_local[t].max,
               timestamp |-> data_cache.last_update,
               data |-> Take(a_local[t].filtered, a_local[t].max)]
         ELSE [op |-> "topics", platform |-> "none", max |-> a_local[t].max,
               timestamp |-> a_local[t].timestamp,
               data |-> Take(data_cache.topics, a_local[t].max)]]
    /\ a_pc' = [a_pc EXCEPT ![t] = "idle"]
    /\ a_local' = [a_local EXCEPT ![t] = NoLocal]
    /\ UNCHANGED <<data_cache, a_events, snapshots, runs, now>>
    /\ AppOnly

\* GET /api/keywords/details/<keyword> (lines 99-147): answered from
\* data_cache['hot_keywords'] alone; total_score is score * 1.5, kept here
\* as twice its value
AppKeywordDetails(t) ==
    /\ a_pc["main"] = "serving"
    /\ a_pc[t] = "idle"
    /\ \E keyword \in {<<"A">>, <<"b">>} :
         LET found == SelectSeq(data_cache.hot_keywords,
                                LAMBDA kw : kw.keyword = keyword)
         IN  a_resp' = [a_resp EXCEPT ![t] =
               IF found = <<>>
               THEN [op |-> "keyword_details", success |-> FALSE, code |-> 404]
               ELSE [op |-> "keyword_details", success |-> TRUE,
                     keyword |-> keyword, sources |-> found[1].sources,
                     score |-> found[1].score,
                     total_score_x2 |-> found[1].score * 3]]
    /\ UNCHANGED <<data_cache, a_pc, a_local, a_events, snapshots, runs, now>>
    /\ AppOnly

\* time passes
AppTick ==
    /\ a_pc["main"] = "serving"
    /\ now < MaxTime
    /\ now' = now + TickStep
    /\ UNCHANGED <<appvars, runs>>
    /\ AppOnly

AppNext ==
    \/ \E t \in AppThreads : AppStartRun(t)
    \/ \E t \in AppThreads : AppCollected(t)
    \/ \E t \in AppThreads : AppWriteHotKeywords(t)
    \/ \E t \in AppThreads : AppWriteTopics(t)
    \/ \E t \in AppThreads : AppWriteLastUpdate(t)
    \/ \E t \in AppThreads : AppEmit(t)
    \/ AppWake
    \/ \E t \in Handlers : AppRequest(t)
    \/ \E t \in Handlers : AppRead(t)
    \/ \E t \in Handlers : AppRespond(t)
    \/ \E t \in Handlers : AppKeywordDetails(t)
    \/ AppTick

----------------------------------------------------------------------------
(* utils/cache.py: MemoryCache and FileCache. A call computes its          *)
(* arguments, takes self.lock (`with self.lock:`), runs its body and       *)
(* releases the lock on return.                                            *)

MaxCalls == 2           \* cache calls made in one behaviour

\* default ttl of MemoryCache() and of FileCache()
MemoryDefaultTtl == 300
FileDefaultTtl == 3600

CValues == {PyStr("v1"), PyStr("v2")}
Ttls == {PyNone, PyInt(300)}
CacheOps == {"get", "set", "delete", "clear", "cleanup"}

\* pickle.dump / pickle.load of the entry dict
PickleDump(e) == [pickle |-> e]
PickleLoad(f) == f.pickle

\* what the store holds for an entry, and the entry a stored item stands for
Stored(e) == IF c_kind = "file" THEN PickleDump(e) ELSE e
Entry(x) == IF c_kind = "file" THEN PickleLoad(x) ELSE x

\* _ttl = ttl if ttl is not None else self.default_ttl
EffectiveTtl(ttl) ==
    IF ttl # PyNone THEN ttl.val
    ELSE IF c_kind = "file" THEN FileDefaultTtl ELSE MemoryDefaultTtl

CacheFrame == UNCHANGED <<f_pc, all_trends, analysis, apivars, appvars, runs, dvars, hvars,
                          tvars, morevars>>

\* a thread calls get / set / delete / clear / cleanup; set computes
\* expires_at before it takes the lock (lines 99-100, 305-306)
CacheCall(t) ==
    /\ c_pc[t] = "idle"
    /\ c_calls < MaxCalls
    /\ \E op \in CacheOps :
       \E key \in (IF op \in {"get", "set", "delete"} THEN CKeys ELSE {"none"}) :
       \E value \in (IF op = "set" THEN CValues ELSE {PyNone}) :
       \E ttl \in (IF op = "set" THEN Ttls ELSE {PyNone}) :
         c_loc' = [c_loc EXCEPT ![t] =
                     [NoCall EXCEPT !.op = op, !.key = key, !.value = value,
                                    !.ttl = IF op = "set" THEN EffectiveTtl(ttl) ELSE 0,
                                    !.expires_at = IF op = "set"
                                                   THEN now + EffectiveTtl(ttl) ELSE 0,
                                    !.result = Unset]]
    /\ c_calls' = c_calls + 1
    /\ c_pc' = [c_pc EXCEPT ![t] = "acquire"]
    /\ UNCHANGED <<c_kind, c_store, c_lock, c_last, now>>
    /\ CacheFrame


\* `with self.lock:` entered without waiting for the lock to be free
CacheAcquireNoLock(t) ==
    /\ c_pc[t] = "acquire"
    /\ c_lock' = t
    /\ c_pc' = [c_pc EXCEPT ![t] = c_loc[t].op]
    /\ c_loc' = [c_loc EXCEPT ![t].before = c_store]
    /\ UNCHANGED <<c_kind, c_calls, c_store, c_last, now>>
    /\ CacheFrame

\* `with self.lock:` the thread gets the lock once it is free; `before`
\* records the store the body starts from
CacheAcquire(t) ==
    /\ c_pc[t] = "acquire"
    /\ c_lock = "free"
    /\ c_lock' = t
    /\ c_pc' = [c_pc EXCEPT ![t] = c_loc[t].op]
    /\ c_loc' = [c_loc EXCEPT ![t].before = c_store]
    /\ UNCHANGED <<c_kind, c_calls, c_store, c_last, now>>
    /\ CacheFrame

\* get whose expiry test is `>=`: an entry is dropped at now = expires_at
CacheGetEager(t) ==
    /\ c_pc[t] = "get"
    /\ LET x == c_store[c_loc[t].key]
       IN  IF x = Absent
           THEN /\ c_loc' = [c_loc EXCEPT ![t].result = PyNone]
                /\ c_pc' = [c_pc EXCEPT ![t] = "release"]
           ELSE /\ c_loc' = [c_loc EXCEPT ![t].t_check = now, ![t].item = Entry(x)]
                /\ c_pc' = [c_pc EXCEPT ![t] =
                              IF now >= Entry(x).expires_at
                              THEN "get_expired" ELSE "get_hit"]
    /\ UNCHANGED <<c_kind, c_calls, c_store, c_lock, c_last, now>>
    /\ CacheFrame

\* get: the key is looked up and the expiry of its entry tested
\* (MemoryCache lines 75-80, FileCache 264-276)
CacheGet(t) ==
    /\ c_pc[t] = "get"
    /\ LET x == c_store[c_loc[t].key]
       IN  IF x = Absent
           THEN /\ c_loc' = [c_loc EXCEPT ![t].result = PyNone]
                /\ c_pc' = [c_pc EXCEPT ![t] = "release"]
           ELSE /\ c_loc' = [c_loc EXCEPT ![t].t_check = now, ![t].item = Entry(x)]
                /\ c_pc' = [c_pc EXCEPT ![t] =
                              IF now > Entry(x).expires_at
                              THEN "get_expired" ELSE "get_hit"]
    /\ UNCHANGED <<c_kind, c_calls, c_store, c_lock, c_last, now>>
    /\ CacheFrame

\* get: the expired entry is deleted and None returned (lines 81-83, 277-279)
CacheGetExpired(t) ==
    /\ c_pc[t] = "get_expired"
    /\ c_store' = [c_store EXCEPT ![c_loc[t].key] = Absent]
    /\ c_loc' = [c_loc EXCEPT ![t].result = PyNone]
    /\ c_pc' = [c_pc EXCEPT ![t] = "release"]
    /\ UNCHANGED <<c_kind, c_calls, c_lock, c_last, now>>
    /\ CacheFrame

\* get: last_accessed of the item is set and its value returned (lines 85-87;
\* FileCache writes the item back to its file, lines 281-286)
CacheGetHit(t) ==
    /\ c_pc[t] = "get_hit"
    /\ LET item    == c_loc[t].item
           touched == [item EXCEPT !.last_accessed = now]
           key     == c_loc[t].key
       IN  /\ c_store' = [c_store EXCEPT ![key] =
                            IF c_kind = "file" THEN PickleDump(touched)
                            ELSE IF c_store[key] = item THEN touched
                            ELSE c_store[key]]
           /\ c_loc' = [c_loc EXCEPT ![t].result = item.value]
    /\ c_pc' = [c_pc EXCEPT ![t] = "release"]
    /\ UNCHANGED <<c_kind, c_calls, c_lock, c_last, now>>
    /\ CacheFrame

\* set: the entry is stored (lines 102-108; FileCache lines 314-322 return
\* True)
CacheSet(t) ==
    /\ c_pc[t] = "set"
    /\ c_store' = [c_store EXCEPT ![c_loc[t].key] =
                     Stored([value |-> c_loc[t].value,
                             expires_at |-> c_loc[t].expires_at,
                             created_at |-> now,
                             last_accessed |-> now])]
    /\ c_last' = [c_last EXCEPT ![c_loc[t].key] =
                     [value |-> c_loc[t].value, expires_at |-> c_loc[t].expires_at]]
    /\ c_loc' = [c_loc EXCEPT ![t].result =
                     IF c_kind = "file" THEN PyBool(TRUE) ELSE PyNone]
    /\ c_pc' = [c_pc EXCEPT ![t] = "release"]
    /\ UNCHANGED <<c_kind, c_calls, c_lock, now>>
    /\ CacheFrame


\* delete (lines 120-124, 335-343)
CacheDelete(t) ==
    /\ c_pc[t] = "delete"
    /\ c_store' = [c_store EXCEPT ![c_loc[t].key] = Absent]
    /\ c_last' = [c_last EXCEPT ![c_loc[t].key] = Absent]
    /\ c_loc' = [c_loc EXCEPT ![t].result = PyBool(c_store[c_loc[t].key] # Absent)]
    /\ c_pc' = [c_pc EXCEPT ![t] = "release"]
    /\ UNCHANGED <<c_kind, c_calls, c_lock, now>>
    /\ CacheFrame

\* clear (lines 128-129, 352-363)
CacheClear(t) ==
    /\ c_pc[t] = "clear"
    /\ c_store' = [k \in CKeys |-> Absent]
    /\ c_last' = [k \in CKeys |-> Absent]
    /\ c_loc' = [c_loc EXCEPT ![t].result =
                     IF c_kind = "file" THEN PyBool(TRUE) ELSE PyNone]
    /\ c_pc' = [c_pc EXCEPT ![t] = "release"]
    /\ UNCHANGED <<c_kind, c_calls, c_lock, now>>
    /\ CacheFrame

\* cleanup: now is read and the expired entries are found (lines 138-142;
\* FileCache lines 373-381)
CacheCleanupScan(t) ==
    /\ c_pc[t] = "cleanup"
    /\ c_loc' = [c_loc EXCEPT
                   ![t].t_check = now,
                   ![t].expired_keys =
                       {k \in CKeys : /\ c_store[k] # Absent
                                      /\ now > Entry(c_store[k]).expires_at}]
    /\ c_pc' = [c_pc EXCEPT ![t] = "cleanup_remove"]
    /\ UNCHANGED <<c_kind, c_calls, c_store, c_lock, c_last, now>>
    /\ CacheFrame

\* cleanup: the entries found are deleted and their number returned
\* (lines 144-151; FileCache lines 382-393)
CacheCleanupRemove(t) ==
    /\ c_pc[t] = "cleanup_remove"
    /\ c_store' = [k \in CKeys |->
                     IF k \in c_loc[t].expired_keys THEN Absent ELSE c_store[k]]
    /\ c_loc' = [c_loc EXCEPT ![t].result = PyInt(Cardinality(c_loc[t].expired_keys))]
    /\ c_pc' = [c_pc EXCEPT ![t] = "release"]
    /\ UNCHANGED <<c_kind, c_calls, c_lock, c_last, now>>
    /\ CacheFrame

\* the `with` block is left and the call returns
CacheRelease(t) ==
    /\ c_pc[t] = "release"
    /\ c_lock' = "free"
    /\ c_pc' = [c_pc EXCEPT ![t] = "idle"]
    /\ c_loc' = [c_loc EXCEPT ![t] = NoCall]
    /\ UNCHANGED <<c_kind, c_calls, c_store, c_last, now>>
    /\ CacheFrame

\* time passes
CacheTick ==
    /\ \E t \in CThreads : c_pc[t] # "off"
    /\ now < MaxTime
    /\ now' = now + TickStep
    /\ UNCHANGED cachevars
    /\ CacheFrame

\* the entry an earlier set("k1", "v1", 300) left: it expires as the clock
\* passes StartTime
EarlierEntry ==
    [value |-> PyStr("v1"), expires_at |-> StartTime,
     created_at |-> StartTime - 300, last_accessed |-> StartTime - 300]

\* one cache instance, of either class, empty or holding the earlier entry,
\* and the threads that share it
CacheInit ==
    /\ c_kind \in {"memory", "file"}
    /\ \E holds \in BOOLEAN :
         /\ c_store = [k \in CKeys |->
                         IF holds /\ k = "k1"
                         THEN (IF c_kind = "file" THEN PickleDump(EarlierEntry)
                               ELSE EarlierEntry)
                         ELSE Absent]
         /\ c_last = [k \in CKeys |->
                         IF holds /\ k = "k1"
                         THEN [value |-> EarlierEntry.value,
                               expires_at |-> EarlierEntry.expires_at]
                         ELSE Absent]
    /\ c_lock = "free"
    /\ c_pc = [t \in CThreads |-> "idle"]
    /\ c_loc = [t \in CThreads |-> NoCall]
    /\ c_calls = 0

CacheNext ==
    \/ \E t \in CThreads : CacheCall(t)
    \/ \E t \in CThreads : CacheAcquire(t)
    \/ \E t \in CThreads : CacheGet(t)
    \/ \E t \in CThreads : CacheGetExpired(t)
    \/ \E t \in CThreads : CacheGetHit(t)
    \/ \E t \in CThreads : CacheSet(t)
    \/ \E t \in CThreads : CacheDelete(t)
    \/ \E t \in CThreads : CacheClear(t)
    \/ \E t \in CThreads : CacheCleanupScan(t)
    \/ \E t \in CThreads : CacheCleanupRemove(t)
    \/ \E t \in CThreads : CacheRelease(t)
    \/ CacheTick

----------------------------------------------------------------------------
(* utils/cache.py: get_cache_key and the cached decorator, applied to a    *)
(* pure method describe(self, x) of a class NewsSource that returns the    *)
(* pair (self.name, x).                                                    *)

CachedTtl == 300        \* ttl of cached()

Receivers ==
    {[type |-> "object", class |-> "NewsSource", name |-> "yonhap"],
     [type |-> "object", class |-> "NewsSource", name |-> "sbs"]}
CachedArgs == {PyInt(1), PyStr("1"), PyStr("a")}

describe(self, x) == [type |-> "tuple", val |-> <<PyStr(self.name), x>>]

\* str(arg) of a str or a small int
PyStrOf(v) ==
    IF v.type = "str" THEN v.val
    ELSE <<"0", "1", "2", "3", "4", "5", "6", "7", "8", "9">>[v.val + 1]

\* ":".join(key_parts)
RECURSIVE JoinParts(_)
JoinParts(parts) ==
    IF Len(parts) = 1 THEN parts[1]
    ELSE parts[1] \o ":" \o JoinParts(Tail(parts))

\* primitives are formatted with str, an object with __dict__ by its class name
get_cache_key(func, args) ==
    JoinParts(<<func>> \o
              [i \in 1..Len(args) |->
                 IF args[i].type \in {"str", "int", "bool", "none"}
                 THEN PyStrOf(args[i])
                 ELSE args[i].class])

\* wrapper(*args): look the key up, return a result that is not None,
\* otherwise run the function and store its result
cached(self, x) ==
    LET cache_key == get_cache_key("sources.NewsSource.describe", <<self, x>>)
        present == cache_key \in DOMAIN d_cache
        live == present /\ ~(now > d_cache[cache_key].expires_at)
        cached_result == IF live THEN d_cache[cache_key].value ELSE PyNone
        result == describe(self, x)
        put(item) == [k \in DOMAIN d_cache \cup {cache_key} |->
                        IF k = cache_key THEN item ELSE d_cache[k]]
    IN  /\ IF cached_result # PyNone
           THEN /\ d_cache' = put([d_cache[cache_key] EXCEPT !.last_accessed = now])
                /\ d_last' = [self |-> self, x |-> x, result |-> cached_result,
                              hit |-> TRUE]
           ELSE /\ d_cache' = put([value |-> result, expires_at |-> now + CachedTtl,
                                   created_at |-> now, last_accessed |-> now])
                /\ d_last' = [self |-> self, x |-> x, result |-> result,
                              hit |-> FALSE]
        /\ UNCHANGED <<f_pc, all_trends, analysis, apivars, appvars, runs, cachevars,
                       hvars, tvars, morevars, now>>

\* time.time() advances between calls
CachedTick ==
    /\ now < MaxTime
    /\ now' = now + TickStep
    /\ UNCHANGED <<f_pc, all_trends, analysis, apivars, appvars, runs, libvars>>

CachedNext ==
    \/ \E self \in Receivers : \E x \in CachedArgs : cached(self, x)
    \/ CachedTick

----------------------------------------------------------------------------
(* utils/http_client.py: HttpClient.get, async_get and async_get_multiple. *)
(* get and async_get run the same loop `for attempt in                     *)
(* range(self.max_retries)`; async_get_multiple runs one async_get task    *)
(* per url and gathers them with asyncio.as_completed.                     *)

DefaultMaxRetries == 3  \* HttpClient(max_retries=3)
MaxUrls == 2            \* length of urls

Urls == <<"u1", "u2", "u3", "u4">>

\* what one request meets: a response with a status code, or no response
Response(status) == [status |-> status]
TransportError == [error |-> "ConnectionError"]
Outcomes == {Response(200), Response(404), Response(503), TransportError}

\* the task of one url before its first attempt
NewTask == [state |-> "running", attempt |-> 0, log |-> <<>>, slept |-> 0,
            value |-> Unset]

HttpFrame == UNCHANGED <<f_pc, all_trends, analysis, apivars, appvars, runs,
                         cachevars, dvars, tvars, morevars, now>>

\* one pass of the loop body of task i: the request, raise_for_status, and
\* the except clause; with range(0) the loop body never runs and the
\* function falls off its end
HttpAttempt(i) ==
    /\ h_result = Unset
    /\ i \in DOMAIN h_task
    /\ h_task[i].state = "running"
    /\ LET task == h_task[i]
           attempt == task.attempt
       IN  IF ~(attempt < h_max_retries)
           THEN /\ h_task' = [h_task EXCEPT ![i] =
                                [task EXCEPT !.state = "returned", !.value = PyNone]]
                /\ h_done' = Append(h_done, i)
           ELSE \E met \in Outcomes :
                  LET log == Append(task.log, met)
                  IN  IF met = Response(200)
                      THEN /\ h_task' = [h_task EXCEPT ![i] =
                                           [task EXCEPT !.state = "returned",
                                                        !.log = log,
                                                        !.value = [text |-> h_urls[i]]]]
                           /\ h_done' = Append(h_done, i)
                      ELSE IF attempt < h_max_retries - 1
                      THEN /\ h_task' = [h_task EXCEPT ![i] =
                                           [task EXCEPT !.state = "sleeping",
                                                        !.log = log,
                                                        !.slept = task.slept + 1]]
                           /\ UNCHANGED h_done
                      ELSE /\ h_task' = [h_task EXCEPT ![i] =
                                           [task EXCEPT !.state = "raised",
                                                        !.log = log,
                                                        !.value = [exception |-> met]]]
                           /\ h_done' = Append(h_done, i)
    /\ UNCHANGED <<h_call, h_max_retries, h_urls, h_result>>
    /\ HttpFrame

\* time.sleep(delay) / await asyncio.sleep(delay) is over: next attempt
HttpWake(i) ==
    /\ i \in DOMAIN h_task
    /\ h_task[i].state = "sleeping"
    /\ h_task' = [h_task EXCEPT ![i] = [@ EXCEPT !.state = "running",
                                                 !.attempt = @ + 1]]
    /\ UNCHANGED <<h_call, h_max_retries, h_urls, h_done, h_result>>
    /\ HttpFrame

\* for task in asyncio.as_completed(tasks): results.append(result or None)
ResultsAsCompleted ==
    [k \in 1..Len(h_done) |->
       IF h_task[h_done[k]].state = "returned" THEN h_task[h_done[k]].value
       ELSE PyNone]

\* the call returns: get / async_get hand on what their loop returned or
\* raised, async_get_multiple returns results
HttpReturn ==
    /\ h_result = Unset
    /\ h_task # <<>>
    /\ Len(h_done) = Len(h_task)
    /\ h_result' = [value |-> IF h_call = "async_get_multiple" THEN ResultsAsCompleted
                              ELSE h_task[1].value]
    /\ UNCHANGED <<h_call, h_max_retries, h_urls, h_task, h_done>>
    /\ HttpFrame

\* a client with some max_retries, and one call made on it
HttpInit ==
    /\ h_call \in {"get", "async_get", "async_get_multiple"}
    /\ h_max_retries \in 0..DefaultMaxRetries
    /\ h_urls \in {SubSeq(Urls, 1, n) :
                      n \in (IF h_call = "async_get_multiple" THEN 1..MaxUrls ELSE {1})}
    /\ h_task = [i \in 1..Len(h_urls) |-> NewTask]
    /\ h_done = <<>>
    /\ h_result = Unset

HttpNext ==
    \/ \E i \in 1..MaxUrls : HttpAttempt(i)
    \/ \E i \in 1..MaxUrls : HttpWake(i)
    \/ HttpReturn

----------------------------------------------------------------------------
(* collectors/trend_collector.py: TrendCollector.collect_all_trends and    *)
(* the four _collect_*_trends helpers it gathers.                          *)

CollectorMaxRetries == 3    \* TrendCollector(max_retries=3)

\* what a helper returns after its loop: [] for youtube and google_trends,
\* {} for news and portal
EmptyResult(name) ==
    IF name \in {"youtube", "google_trends"} THEN [type |-> "list", val |-> <<>>]
    ELSE [type |-> "dict", val |-> <<>>]

\* what the adapter's fetch returns when it does not raise
Fetched(name) == [type |-> "fetched", val |-> <<name>>]

\* positions in Sources of the adapters a task was made for
TaskPositions == {i \in 1..Len(Sources) : \E k \in 1..Len(t_tasks) : t_tasks[k] = Sources[i]}

\* variant of the loop body whose last failure is raised, not swallowed
CollectAttemptRaising(i) ==
    /\ t_result = Unset
    /\ i \in TaskPositions
    /\ t_task[i].state = "running"
    /\ LET task == t_task[i]
       IN  IF ~(task.attempt < t_max_retries)
           THEN t_task' = [t_task EXCEPT ![i] =
                             [task EXCEPT !.state = "returned",
                                          !.value = EmptyResult(Sources[i])]]
           ELSE \E ok \in BOOLEAN :
                  t_task' = [t_task EXCEPT ![i] =
                    IF ok
                    THEN [task EXCEPT !.state = "returned",
                                      !.log = Append(task.log, "ok"),
                                      !.value = Fetched(Sources[i])]
                    ELSE IF task.attempt < t_max_retries - 1
                    THEN [task EXCEPT !.attempt = task.attempt + 1,
                                      !.log = Append(task.log, "error")]
                    ELSE [task EXCEPT !.state = "raised",
                                      !.log = Append(task.log, "error")]]
    /\ t_done' = IF t_task'[i].state # "running" THEN Append(t_done, i) ELSE t_done
    /\ UNCHANGED <<t_max_retries, t_tasks, t_result>>
    /\ UNCHANGED <<f_pc, all_trends, analysis, apivars, appvars, runs, cachevars, dvars,
                   hvars, morevars, now>>

\* one pass of `for attempt in range(self.max_retries)` of the helper of
\* adapter i: return on success, on an Exception sleep and go on; after the
\* loop return the empty result
CollectAttempt(i) ==
    /\ t_result = Unset
    /\ i \in TaskPositions
    /\ t_task[i].state = "running"
    /\ LET task == t_task[i]
       IN  IF ~(task.attempt < t_max_retries)
           THEN t_task' = [t_task EXCEPT ![i] =
                             [task EXCEPT !.state = "returned",
                                          !.value = EmptyResult(Sources[i])]]
           ELSE \E ok \in BOOLEAN :
                  t_task' = [t_task EXCEPT ![i] =
                    IF ok
                    THEN [task EXCEPT !.state = "returned",
                                      !.log = Append(task.log, "ok"),
                                      !.value = Fetched(Sources[i])]
                    ELSE [task EXCEPT !.attempt = task.attempt + 1,
                                      !.log = Append(task.log, "error")]]
    /\ t_done' = IF t_task'[i].state # "running" THEN Append(t_done, i) ELSE t_done
    /\ UNCHANGED <<t_max_retries, t_tasks, t_result>>
    /\ UNCHANGED <<f_pc, all_trends, analysis, apivars, appvars, runs, cachevars, dvars,
                   hvars, morevars, now>>

\* position in Sources of the k-th task
PositionOf(k) == CHOOSE i \in 1..Len(Sources) : Sources[i] = t_tasks[k]

\* asyncio.gather(*tasks, return_exceptions=True) is over: every 2-tuple is
\* stored in results['sources'], an exception is logged and skipped
CollectReturn ==
    /\ t_result = Unset
    /\ \A i \in TaskPositions : t_task[i].state # "running"
    /\ LET kept == SelectSeq([k \in 1..Len(t_tasks) |-> PositionOf(k)],
                             LAMBDA i : t_task[i].state = "returned")
       IN  t_result' = [sources |-> [k \in 1..Len(kept) |->
                                       <<Sources[kept[k]], t_task[kept[k]].value>>],
                        raised |-> FALSE]
    /\ UNCHANGED <<t_max_retries, t_tasks, t_task, t_done>>
    /\ UNCHANGED <<f_pc, all_trends, analysis, apivars, appvars, runs, cachevars, dvars,
                   hvars, morevars, now>>

\* a TrendCollector with some max_retries, and one collect_all_trends call:
\* a task for each adapter that is included and whose collector is not None
CollectorInit ==
    /\ t_max_retries \in 0..CollectorMaxRetries
    /\ \E include \in [1..Len(Sources) -> BOOLEAN] :
       \E youtube_api_key \in BOOLEAN :
         t_tasks = [k \in 1..Cardinality({i \in 1..Len(Sources) :
                                             include[i] /\ (i # 1 \/ youtube_api_key)}) |->
                      Sources[CHOOSE i \in 1..Len(Sources) :
                                 /\ include[i] /\ (i # 1 \/ youtube_api_key)
                                 /\ Cardinality({j \in 1..i :
                                        include[j] /\ (j # 1 \/ youtube_api_key)}) = k]]
    /\ t_task = [i \in 1..Len(Sources) |-> NewCollect]
    /\ t_done = <<>>
    /\ t_result = Unset

CollectorNext ==
    \/ \E i \in 1..Len(Sources) : CollectAttempt(i)
    \/ CollectReturn

----------------------------------------------------------------------------
(* collectors/trend_collector.py: get_combined_trending_keywords, applied  *)
(* to bounded portal results.                                              *)

MaxTrends == 3          \* trends in portal_results, all portals together

DefaultRank == 999      \* trend.get('rank', 999)
RankBase == 21          \* max(21 - rank, 1)

CombineKeywords == {<<"A">>, <<"a">>, <<"b">>}
PortalRanks == {PyNone, PyInt(1), PyInt(25)}
PortalTrends == [keyword : CombineKeywords, rank : PortalRanks]

\* portal_results.items() flattened: the (source, trend) pairs in loop order
RECURSIVE FlatTrends(_)
FlatTrends(i) ==
    IF i > Len(Portals) THEN <<>>
    ELSE [k \in DOMAIN p_results[Portals[i]] |->
            [source |-> Portals[i], trend |-> p_results[Portals[i]][k]]]
         \o FlatTrends(i + 1)

\* one pass of the inner loop (lines 644-667) over acc = [order, data]
CombineOne(acc, source, trend) ==
    LET keyword == Lower(trend.keyword)
        rank == IF trend.rank = PyNone THEN DefaultRank ELSE trend.rank.val
        gain == IF RankBase - rank > 1 THEN RankBase - rank ELSE 1
        seen == keyword \in DOMAIN acc.data
        old == IF seen THEN acc.data[keyword]
               ELSE [keyword |-> trend.keyword, sources |-> {},
                     ranks |-> [s \in {} |-> 0], score |-> 0]
        new == [keyword |-> old.keyword,
                sources |-> old.sources \cup {source},
                ranks |-> [s \in DOMAIN old.ranks \cup {source} |->
                             IF s = source THEN rank ELSE old.ranks[s]],
                score |-> old.score + gain]
    IN  [order |-> IF seen THEN acc.order ELSE Append(acc.order, keyword),
         data |-> [k \in DOMAIN acc.data \cup {keyword} |->
                     IF k = keyword THEN new ELSE acc.data[k]]]

RECURSIVE CombineAll(_, _)
CombineAll(acc, flat) ==
    IF flat = <<>> THEN acc
    ELSE CombineAll(CombineOne(acc, flat[1].source, flat[1].trend), Tail(flat))

\* lines 620-693; the sort of line 679 is stable (SortByScore)
get_combined_trending_keywords(min_sources, max_results) ==
    LET acc == CombineAll([order |-> <<>>, data |-> [k \in {} |-> 0]], FlatTrends(1))
        all == [i \in DOMAIN acc.order |-> acc.data[acc.order[i]]]
        result_keywords ==
            SortByScore(SelectSeq(all, LAMBDA d : Cardinality(d.sources) >= min_sources))
        top == Take(result_keywords, max_results)
    IN  [idx \in DOMAIN top |->
           [rank |-> idx, keyword |-> top[idx].keyword, sources |-> top[idx].sources,
            source_ranks |-> top[idx].ranks, score |-> top[idx].score]]

CombineFrame == UNCHANGED <<f_pc, all_trends, analysis, apivars, appvars, runs,
                            cachevars, dvars, hvars, tvars, gvars, rvars, mvars, kvars, now>>

\* the caller builds portal_results: one more trend in a portal's list
AddPortalTrend ==
    /\ p_combined = Unset
    /\ Len(FlatTrends(1)) < MaxTrends
    /\ \E s \in DOMAIN p_results : \E trend \in PortalTrends :
         p_results' = [p_results EXCEPT ![s] = Append(@, trend)]
    /\ UNCHANGED p_combined
    /\ CombineFrame

Combine ==
    /\ p_combined = Unset
    /\ \E min_sources \in {1, 2} : \E max_results \in {1, 100} :
         p_combined' = [min_sources |-> min_sources, max_results |-> max_results,
                        value |-> get_combined_trending_keywords(min_sources, max_results)]
    /\ UNCHANGED p_results
    /\ CombineFrame

CombineNext == AddPortalTrend \/ Combine

----------------------------------------------------------------------------
(* backend/trend_collector.py: collect_all as the five adapter tasks it    *)
(* gathers finish one after the other, in any order.                       *)

GatherFrame == UNCHANGED <<f_pc, all_trends, analysis, apivars, appvars, runs,
                           cachevars, dvars, hvars, tvars, pvars, rvars, mvars, kvars, now>>

\* the task of adapter i finishes: it returns its list, or ends with an
\* exception that gather hands back as a value
GatherComplete(i) ==
    /\ g_out = Unset
    /\ i \in DOMAIN g_task
    /\ g_task[i] = "pending"
    /\ \E how \in {"list", "exception"} : g_task' = [g_task EXCEPT ![i] = how]
    /\ g_done' = Append(g_done, i)
    /\ UNCHANGED g_out
    /\ GatherFrame

\* the trends of the tasks that returned a list, in the order the tasks
\* finished
RECURSIVE TrendsAsCompleted(_)
TrendsAsCompleted(k) ==
    IF k > Len(g_done) THEN <<>>
    ELSE (IF g_task[g_done[k]] = "list" THEN AdapterData(Adapters[g_done[k]]) ELSE <<>>)
         \o TrendsAsCompleted(k + 1)

\* a collect_all that takes the results as the tasks finish
GatherReturnAsCompleted ==
    /\ g_out = Unset
    /\ g_task # <<>>
    /\ \A i \in DOMAIN g_task : g_task[i] # "pending"
    /\ g_out' = [timestamp |-> IsoFormat(now), total |-> Len(TrendsAsCompleted(1)),
                 trends |-> TrendsAsCompleted(1)]
    /\ UNCHANGED <<g_task, g_done>>
    /\ GatherFrame

\* results = await asyncio.gather(*tasks, return_exceptions=True) and the
\* loop over results (lines 41-55)
GatherReturn ==
    /\ g_out = Unset
    /\ g_task # <<>>
    /\ \A i \in DOMAIN g_task : g_task[i] # "pending"
    /\ g_out' = collect_all({Adapters[i] : i \in {j \in DOMAIN g_task : g_task[j] = "list"}})
    /\ UNCHANGED <<g_task, g_done>>
    /\ GatherFrame

\* collect_all called: five tasks created (lines 33-39)
GatherInit ==
    /\ g_task = [i \in DOMAIN Adapters |-> "pending"]
    /\ g_done = <<>>
    /\ g_out = Unset

----------------------------------------------------------------------------
(* backend/trend_collector.py: collect_news_api over an RSS feed of n      *)
(* items, one of which may lack a title. Of each record the source, the    *)
(* index of its item and the score are kept.                               *)

MaxFeed == 55           \* items in the feed
NewsItems == 50         \* root.findall('.//item')[:50]
NewsTop == 80           \* "score": 80 - (idx * 2)
NewsStep == 2

\* the loop of lines 170-191 over the items read: idx counts from 0, an
\* item without title text adds no record
NewsTrends(n, missing) ==
    LET read == IF n < NewsItems THEN n ELSE NewsItems
        kept == SelectSeq([k \in 1..read |-> k - 1], LAMBDA idx : idx + 1 # missing)
    IN  [k \in DOMAIN kept |->
           [source |-> "news", idx |-> kept[k], score |-> NewsTop - (kept[k] * NewsStep)]]

\* collect_news_api: [] unless the status is 200; an exception is caught
\* and gives [] too
collect_news_api ==
    /\ r_feed # Unset
    /\ r_trends = Unset
    /\ r_trends' = [value |-> IF r_feed.status = 200
                              THEN NewsTrends(r_feed.n, r_feed.missing)
                              ELSE <<>>]
    /\ UNCHANGED r_feed
    /\ UNCHANGED <<f_pc, all_trends, analysis, apivars, appvars, runs,
                   cachevars, dvars, hvars, tvars, pvars, gvars, mvars, kvars, now>>

\* the feed the request meets
NewsInit ==
    /\ r_feed \in {[status |-> s, n |-> n, missing |-> m] :
                      s \in {200, 503}, n \in 0..MaxFeed, m \in {0, 1, 45}}
    /\ r_trends = Unset

----------------------------------------------------------------------------
(* main.py: run_daemon and signal_handler.                                 *)

MaxStarted == 4         \* run_collection calls started in one behaviour
MaxInterval == 2        \* args.interval, seconds

DaemonFrame == UNCHANGED <<f_pc, all_trends, analysis, apivars, appvars, runs,
                           cachevars, dvars, hvars, tvars, pvars, gvars, rvars, kvars, now>>

\* `while not stop_requested:` - the loop ends, or a run is started
DaemonLoop ==
    /\ m_pc = "loop"
    /\ IF stop_requested
       THEN m_pc' = "done" /\ UNCHANGED m_started
       ELSE /\ m_started < MaxStarted
            /\ m_started' = m_started + 1
            /\ m_pc' = "running"
    /\ UNCHANGED <<m_args, m_completed, m_wait, stop_requested>>
    /\ DaemonFrame

\* lines 404-437: run_collection returns and the results are saved, the
\* run is counted, the loop is left when args.runs is reached, else the
\* wait begins; or an exception is raised before the count (line 444)
DaemonRunEnds ==
    /\ m_pc = "running"
    /\ \E raised \in BOOLEAN :
         IF raised
         THEN /\ m_pc' = "error_sleep"
              /\ UNCHANGED <<m_completed, m_wait>>
         ELSE /\ m_completed' = m_completed + 1
              /\ IF m_args.runs > 0 /\ m_completed + 1 >= m_args.runs
                 THEN m_pc' = "done" /\ UNCHANGED m_wait
                 ELSE IF m_args.interval > 0 /\ ~stop_requested
                 THEN m_pc' = "wait" /\ m_wait' = m_args.interval
                 ELSE m_pc' = "loop" /\ UNCHANGED m_wait
    /\ UNCHANGED <<m_args, m_started, stop_requested>>
    /\ DaemonFrame

\* one pass of `for _ in range(int(wait_time))`: sleep(1), then leave the
\* loop if stop_requested
DaemonWait ==
    /\ m_pc = "wait"
    /\ m_wait' = m_wait - 1
    /\ m_pc' = IF stop_requested \/ m_wait - 1 = 0 THEN "loop" ELSE "wait"
    /\ UNCHANGED <<m_args, m_completed, m_started, stop_requested>>
    /\ DaemonFrame

\* await asyncio.sleep(min(30, args.interval)) of the except clause is over
DaemonErrorSleep ==
    /\ m_pc = "error_sleep"
    /\ m_pc' = "loop"
    /\ UNCHANGED <<m_args, m_completed, m_wait, m_started, stop_requested>>
    /\ DaemonFrame

\* SIGINT or SIGTERM arrives
signal_handler ==
    /\ m_pc \notin {"off", "done"}
    /\ ~stop_requested
    /\ stop_requested' = TRUE
    /\ UNCHANGED <<m_args, m_pc, m_completed, m_wait, m_started>>
    /\ DaemonFrame

\* run_daemon(args) entered
DaemonInit ==
    /\ m_args \in [runs : 0..2, interval : 0..MaxInterval]
    /\ m_pc = "loop" /\ m_completed = 0 /\ m_wait = 0 /\ m_started = 0
    /\ stop_requested = FALSE

DaemonNext ==
    \/ DaemonLoop
    \/ DaemonRunEnds
    \/ DaemonWait
    \/ DaemonErrorSleep
    \/ signal_handler

----------------------------------------------------------------------------
(* utils/cache.py: FileCache.get and FileCache.set of one key whose cache  *)
(* file was damaged outside the program, called from one thread.           *)

MaxFileCalls == 3       \* calls made on the key in one behaviour

\* a cache file cut short, and one that holds bytes that are no pickle
Truncated == [damaged |-> "truncated"]
Garbage == [damaged |-> "garbage"]

\* a pickled dict without the key expires_at
NoExpiry == {PickleDump([value |-> v]) : v \in CValues}

DamagedFiles == {Truncated, Garbage} \cup NoExpiry

\* how pickle.load(f) can end on what the file holds: "none" when it
\* returns, else the exception raised. An empty file, or one cut at an
\* opcode boundary, raises EOFError ("Ran out of input"); one cut inside
\* an opcode raises UnpicklingError ("pickle data was truncated")
LoadErrors(f) ==
    IF f = Truncated THEN {"EOFError", "UnpicklingError"}
    ELSE IF f = Garbage THEN {"UnpicklingError"}
    ELSE {"none"}

\* `except (IOError, pickle.PickleError)` of get (line 288)
CaughtByGet(err) == err \in {"IOError", "PickleError", "PicklingError", "UnpicklingError"}

Returned(op, value) == [op |-> op, raised |-> "none", value |-> value]
Raised(op, err) == [op |-> op, raised |-> err, value |-> Unset]

DamagedFrame == UNCHANGED <<f_pc, all_trends, analysis, apivars, appvars, runs,
                            cachevars, dvars, hvars, tvars, pvars, gvars, rvars, mvars>>

\* FileCache.get(key), lines 263-293
FileCacheGet ==
    /\ k_calls < MaxFileCalls
    /\ k_calls' = k_calls + 1
    /\ IF k_file = Absent
       THEN k_last' = Returned("get", PyNone) /\ UNCHANGED k_file
       ELSE \E err \in LoadErrors(k_file) :
              IF err # "none"
              THEN IF CaughtByGet(err)
                   THEN k_file' = Absent /\ k_last' = Returned("get", PyNone)
                   ELSE k_last' = Raised("get", err) /\ UNCHANGED k_file
              ELSE LET cache_data == PickleLoad(k_file)
                   IN  IF "expires_at" \notin DOMAIN cache_data
                       THEN k_last' = Raised("get", "KeyError") /\ UNCHANGED k_file
                       ELSE IF now > cache_data.expires_at
                       THEN k_file' = Absent /\ k_last' = Returned("get", PyNone)
                       ELSE /\ k_file' = PickleDump([value |-> cache_data.value,
                                                     expires_at |-> cache_data.expires_at,
                                                     created_at |-> cache_data.created_at,
                                                     last_accessed |-> now])
                            /\ k_last' = Returned("get", cache_data.value)
    /\ UNCHANGED now
    /\ DamagedFrame

\* FileCache.set(key, value, ttl), lines 307-333: open(cache_file, 'wb')
\* replaces whatever the file held
FileCacheSet ==
    /\ k_calls < MaxFileCalls
    /\ k_calls' = k_calls + 1
    /\ \E value \in CValues, ttl \in Ttls :
         /\ k_file' = PickleDump([value |-> value,
                                  expires_at |-> now + (IF ttl # PyNone THEN ttl.val
                                                        ELSE FileDefaultTtl),
                                  created_at |-> now,
                                  last_accessed |-> now])
         /\ k_last' = Returned("set", PyBool(TRUE))
    /\ UNCHANGED now
    /\ DamagedFrame

\* time passes
DamagedTick ==
    /\ now < MaxTime
    /\ now' = now + TickStep
    /\ UNCHANGED kvars
    /\ DamagedFrame

\* a FileCache whose cache_dir holds, for the key, no file, a file set
\* earlier, or a damaged file
DamagedInit ==
    /\ k_file \in {Absent, PickleDump(EarlierEntry)} \cup DamagedFiles
    /\ k_last = Unset
    /\ k_calls = 0

DamagedNext == FileCacheGet \/ FileCacheSet \/ DamagedTick

----------------------------------------------------------------------------
(* Specifications                                                          *)

FNext == AddRecord \/ AddBulk \/ Analyze

FusionInit ==
    /\ f_pc = "input" /\ all_trends = <<>> /\ analysis = Unset /\ LibIdle
    /\ ApiIdle /\ AppIdle /\ runs = 0 /\ now = StartTime

SpecFusion == FusionInit /\ [][FNext]_vars

ApiServerInit == ApiInit /\ FIdle /\ AppIdle /\ runs = 0 /\ now = StartTime

SpecApi == ApiServerInit /\ [][ApiNext]_vars

AppServerInit == AppInit /\ FIdle /\ ApiIdle /\ runs = 0 /\ now = StartTime

SpecApp == AppServerInit /\ [][AppNext]_vars

\* a cache instance shared by threads
CacheSpecInit ==
    /\ CacheInit /\ CachedIdle /\ HttpIdle /\ CollectorIdle /\ MoreIdle
    /\ f_pc = "idle" /\ all_trends = <<>> /\ analysis = Unset
    /\ ApiIdle /\ AppIdle /\ runs = 0 /\ now = StartTime

SpecCache == CacheSpecInit /\ [][CacheNext]_vars

\* calls of a method wrapped with cached, on the shared memory_cache
CachedSpecInit == FIdle /\ ApiIdle /\ AppIdle /\ runs = 0 /\ now = StartTime

SpecCached == CachedSpecInit /\ [][CachedNext]_vars

\* one call on an HttpClient
HttpSpecInit ==
    /\ HttpInit /\ CacheIdle /\ CachedIdle /\ CollectorIdle /\ MoreIdle
    /\ f_pc = "idle" /\ all_trends = <<>> /\ analysis = Unset
    /\ ApiIdle /\ AppIdle /\ runs = 0 /\ now = StartTime

SpecHttp == HttpSpecInit /\ [][HttpNext]_vars

\* one collect_all_trends call on a TrendCollector
CollectorSpecInit ==
    /\ CollectorInit /\ CacheIdle /\ CachedIdle /\ HttpIdle /\ MoreIdle
    /\ f_pc = "idle" /\ all_trends = <<>> /\ analysis = Unset
    /\ ApiIdle /\ AppIdle /\ runs = 0 /\ now = StartTime

SpecCollector == CollectorSpecInit /\ [][CollectorNext]_vars

\* get_combined_trending_keywords on portal results built trend by trend
CombineSpecInit ==
    /\ FIdle /\ ApiIdle /\ AppIdle /\ runs = 0 /\ now = StartTime

SpecCombine == CombineSpecInit /\ [][CombineNext]_vars

\* one aggregation run of either collector: collect_all_trends of
\* TrendCollector, or collect_all of ImprovedTrendCollector
GatherSpecInit ==
    \/ CollectorSpecInit
    \/ /\ GatherInit /\ CombineIdle /\ NewsIdle /\ DaemonIdle /\ DamagedIdle
       /\ CacheIdle /\ CachedIdle /\ HttpIdle /\ CollectorIdle
       /\ f_pc = "idle" /\ all_trends = <<>> /\ analysis = Unset
       /\ ApiIdle /\ AppIdle /\ runs = 0 /\ now = StartTime

GatherNext ==
    \/ CollectorNext
    \/ \E i \in DOMAIN Adapters : GatherComplete(i)
    \/ GatherReturn

SpecGather == GatherSpecInit /\ [][GatherNext]_vars

\* one call of collect_news_api
NewsSpecInit ==
    /\ NewsInit /\ CombineIdle /\ GatherIdle /\ DaemonIdle /\ DamagedIdle
    /\ CacheIdle /\ CachedIdle /\ HttpIdle /\ CollectorIdle
    /\ f_pc = "idle" /\ all_trends = <<>> /\ analysis = Unset
    /\ ApiIdle /\ AppIdle /\ runs = 0 /\ now = StartTime

SpecNews == NewsSpecInit /\ [][collect_news_api]_vars

\* main.py --daemon
DaemonSpecInit ==
    /\ DaemonInit /\ CombineIdle /\ GatherIdle /\ NewsIdle /\ DamagedIdle
    /\ CacheIdle /\ CachedIdle /\ HttpIdle /\ CollectorIdle
    /\ f_pc = "idle" /\ all_trends = <<>> /\ analysis = Unset
    /\ ApiIdle /\ AppIdle /\ runs = 0 /\ now = StartTime

SpecDaemon == DaemonSpecInit /\ [][DaemonNext]_vars

\* api_server.py from start to exit and started again, no requests served
PersistNext ==
    \/ LoadInitialData
    \/ CollectOnce
    \/ StartServer
    \/ BeginShutdown
    \/ save_cache
    \/ Restart
    \/ ApiTick

SpecPersist == ApiServerInit /\ [][PersistNext]_vars

\* either server program
ServersInit == ApiServerInit \/ AppServerInit
ServersNext == ApiNext \/ AppNext

SpecServers == ServersInit /\ [][ServersNext]_vars

----------------------------------------------------------------------------
(* Claims                                                                  *)

\* positions inside an aggregation run of app.py (update_cache entered and
\* not yet returned)
RunPcs == {"collecting", "line297", "line298", "line299", "line302"}

\* C1: at any time at most one aggregation run is in progress.
C1_SingleInFlight ==
    Cardinality({t \in AppThreads : a_pc[t] \in RunPcs}) <= 1

\* C2: what a reader returns belongs to one published snapshot: the
\* timestamp and the data of a response are those of one and the same
\* snapshot.
C2_NoTornRead ==
    \A t \in Handlers :
        /\ a_resp[t].op = "hot_keywords" =>
             \E snap \in snapshots :
                 /\ a_resp[t].timestamp = snap.last_update
                 /\ a_resp[t].data =
                      Take(FilterPlatform(snap.hot_keywords, a_resp[t].platform),
                           a_resp[t].max)
        /\ a_resp[t].op = "topics" =>
             \E snap \in snapshots :
                 /\ a_resp[t].timestamp = snap.last_update
                 /\ a_resp[t].data = Take(snap.topics, a_resp[t].max)

\* broadcast trends_update events that carry timestamp ts
BroadcastsAt(ts) ==
    SelectSeq(events, LAMBDA e : e.to = "all" /\ e.timestamp = ts)

\* C3: a background iteration whose aggregation returned records ends with
\* hot_keywords and last_update replaced by its result and exactly one
\* trends_update broadcast carrying the first 10 keywords, the first 5
\* topics and the new timestamp.
C3_BackgroundPublishes ==
    (bg_pc = "sleep" /\ bg_local.result.trends # <<>>) =>
        /\ trends_cache.hot_keywords = bg_local.hot_keywords
        /\ trends_cache.last_update # PyNone
        /\ FromIso(trends_cache.last_update) >= FromIso(bg_local.result.timestamp)
        /\ Len(BroadcastsAt(trends_cache.last_update)) = 1
        /\ LET e == BroadcastsAt(trends_cache.last_update)[1]
           IN  /\ e.hot_keywords = Take(bg_local.hot_keywords, 10)
               /\ e.topics = Take(trends_cache.topics, 5)

\* C4: a refresh (bootstrap or background) in which every adapter failed
\* leaves hot_keywords, topics and last_update as they were and emits no
\* event.
C4_TotalFailureKeepsSnapshot ==
    [][ ( \/ /\ main_pc = "collect_once" /\ main_pc' = "start"
             /\ boot_local'.result.trends = <<>>
          \/ /\ bg_pc = "line53" /\ bg_pc' = "sleep"
             /\ bg_local.result.trends = <<>> )
        => (trends_cache' = trends_cache /\ events' = events) ]_vars

\* C5: once a snapshot has been published, the keyword-details query finds
\* at least one raw record for every entry of hot_keywords.
C5_HotKeywordsIndexed ==
    boot_local # Unset =>
        \A i \in DOMAIN trends_cache.hot_keywords :
            KeywordDetails(trends_cache.hot_keywords[i].keyword).related_count >= 1

C7_NoClusteringNoTopics ==
    (boot_local # Unset /\ (Len(boot_local.hot_keywords) < 5 \/ ~openai_key))
        => trends_cache.topics = <<>>

\* sum of f[i] over a finite set I of indices
RECURSIVE SumOver(_, _)
SumOver(I, f) ==
    IF I = {} THEN 0
    ELSE LET i == CHOOSE j \in I : TRUE
         IN  f[i] + SumOver(I \ {i}, f)

\* what record i adds to its key in the code: its score, 50 when it carries
\* none
Contribution ==
    [i \in DOMAIN all_trends |->
        IF DictGetScore(all_trends[i]).type = "int"
        THEN DictGetScore(all_trends[i]).val ELSE 0]

\* every score of the input is an integer or missing (what the adapters emit)
IntegerScores ==
    \A i \in DOMAIN all_trends : DictGetScore(all_trends[i]).type = "int"

\* whitespace collapsing: runs of blanks become one, leading blanks go
RECURSIVE Collapse(_, _)
Collapse(s, afterBlank) ==
    IF s = <<>> THEN <<>>
    ELSE IF Head(s) = " "
         THEN (IF afterBlank THEN <<>> ELSE <<" ">>) \o Collapse(Tail(s), TRUE)
         ELSE <<Head(s)>> \o Collapse(Tail(s), FALSE)

\* the claim's normalized key: case-folded, whitespace-collapsed
NormalizedKey(s) ==
    LET c == Collapse(Lower(s), TRUE)
    IN  IF c # <<>> /\ c[Len(c)] = " " THEN SubSeq(c, 1, Len(c) - 1) ELSE c

\* indices of the records of all_trends whose normalized key is `key`
RecordsOfKey(key) ==
    {i \in DOMAIN all_trends : NormalizedKey(all_trends[i].keyword) = key}

\* C8: fusion yields one entry per normalized keyword; the entry's score is
\* the sum of the contributions of the records with that key, its sources
\* are exactly their sources, and its keyword is the raw keyword of the
\* first of them.
C8_FusionGroups ==
    (f_pc = "done" /\ IntegerScores) =>
        /\ analysis.status = "ok"
        /\ LET hot == analysis.hot_keywords
           IN  /\ \A i, j \in DOMAIN hot :
                     i # j => NormalizedKey(hot[i].keyword) # NormalizedKey(hot[j].keyword)
               /\ \A r \in DOMAIN all_trends : \E e \in DOMAIN hot :
                     NormalizedKey(hot[e].keyword) = NormalizedKey(all_trends[r].keyword)
               /\ \A e \in DOMAIN hot :
                     LET I == RecordsOfKey(NormalizedKey(hot[e].keyword))
                     IN  /\ hot[e].score = SumOver(I, Contribution)
                         /\ hot[e].sources = {all_trends[i].source : i \in I}
                         /\ Cardinality(hot[e].sources) >= 1
                         /\ hot[e].keyword =
                              all_trends[CHOOSE i \in I : \A j \in I : i <= j].keyword

\* indices of the records of all_trends the code fuses under `key`
RecordsOf(key) == {i \in DOMAIN all_trends : Lower(all_trends[i].keyword) = key}

\* the contribution the claim gives record i: 50 when the score is missing,
\* null or zero, the score otherwise
ClaimedContribution ==
    [i \in DOMAIN all_trends |->
        LET r == all_trends[i]
        IN  IF "score" \notin DOMAIN r THEN 50
            ELSE IF r.score.type # "int" THEN 50
            ELSE IF r.score.val = 0 THEN 50
            ELSE r.score.val]

\* C9: fusion completes without error, and a record whose score is missing,
\* null or zero adds exactly 50 to its keyword's score, any other record its
\* score.
C9_ScorelessContributes50 ==
    f_pc = "done" =>
        /\ analysis.status = "ok"
        /\ \A e \in DOMAIN analysis.hot_keywords :
              analysis.hot_keywords[e].score =
                  SumOver(RecordsOf(Lower(analysis.hot_keywords[e].keyword)),
                          ClaimedContribution)

\* C10: records are fused into one entry exactly when their keywords are
\* equal after case-folding and whitespace collapsing, so fusion yields as
\* many entries as the input has normalized keys.
C10_NormalizedKeyMerging ==
    (f_pc = "done" /\ IntegerScores) =>
        Len(analysis.hot_keywords) =
            Cardinality({NormalizedKey(all_trends[i].keyword) :
                            i \in DOMAIN all_trends})

\* index of the first record of all_trends fused under the key of keyword kw
FirstSeen(kw) ==
    CHOOSE i \in DOMAIN all_trends :
        /\ Lower(all_trends[i].keyword) = Lower(kw)
        /\ \A j \in 1..(i - 1) : Lower(all_trends[j].keyword) # Lower(kw)

\* order key of a fused entry: score x number of sources
OrderKey(e) == e.score * Cardinality(e.sources)

\* C11: the fused list is in descending order of score x |sources|; of two
\* adjacent entries the earlier has the greater order key, or the same order
\* key and a key first seen earlier in the input.
C11_SortedByOrderKey ==
    (f_pc = "done" /\ analysis.status = "ok") =>
        LET hot == analysis.hot_keywords
        IN  \A i \in 1..(Len(hot) - 1) :
               \/ OrderKey(hot[i]) > OrderKey(hot[i + 1])
               \/ /\ OrderKey(hot[i]) = OrderKey(hot[i + 1])
                  /\ FirstSeen(hot[i].keyword) < FirstSeen(hot[i + 1].keyword)

\* "b" (50) arrives second and is placed first; "a" and "a " tie at 30 and
\* keep their order of arrival
C11_Witness ==
    /\ f_pc = "done"
    /\ all_trends = <<[keyword |-> <<"a">>, source |-> "news", score |-> PyInt(30)],
                      [keyword |-> <<"b">>, source |-> "youtube"],
                      [keyword |-> <<"a", " ">>, source |-> "news",
                       score |-> PyInt(30)]>>
    /\ analysis.status = "ok"
    /\ [i \in DOMAIN analysis.hot_keywords |-> analysis.hot_keywords[i].keyword]
          = << <<"b">>, <<"a">>, <<"a", " ">> >>

\* ranks are 1, 2, ... in list order
RanksFromOne(list) == \A i \in DOMAIN list : list[i].rank = i

PersistedStale ==
    \/ cache_file = Unset
    \/ "last_update" \notin DOMAIN cache_file
    \/ cache_file.last_update.json = "null"
    \/ now - cache_file.last_update.text > StaleThreshold

\* C13: on start, when the persisted snapshot is absent or older than
\* StaleThreshold, one refresh completes before the background loop starts
\* and before a read is served; when it is fresher, the server starts on the
\* loaded snapshot with no refresh.
C13_BootstrapBeforeServing ==
    /\ []( /\ (bg_pc # "not_started" \/ is_collecting \/ responses # Unset \/ events # <<>>)
                => main_pc \in {"serving", "save", "exited"}
           /\ main_pc = "collect_once" => (boot_local = Unset /\ runs = 0)
           /\ main_pc = "start" => runs = (IF boot_local = Unset THEN 0 ELSE 1) )
    /\ [][ /\ (main_pc = "load" /\ main_pc' # "load") =>
                 IF PersistedStale
                 THEN main_pc' = "collect_once"
                 ELSE /\ main_pc' = "start"
                      /\ trends_cache'.last_update.iso = cache_file.last_update.text
                      /\ trends_cache'.hot_keywords = cache_file.hot_keywords.items
           /\ (main_pc = "collect_once" /\ main_pc' # "collect_once") =>
                 /\ main_pc' = "start"
                 /\ runs' = runs + 1
                 /\ boot_local' # Unset
                 /\ trends_cache'.last_update = IsoFormat(now)
                 /\ trends_cache'.hot_keywords = boot_local'.hot_keywords
         ]_vars

\* a read served after the bootstrap refresh of a process that found a
\* two-hour-old file
C13_Witness ==
    /\ main_pc = "serving"
    /\ cache_file = JsonDump(SavedCache(7200))
    /\ boot_local # Unset
    /\ boot_local.hot_keywords # <<>>
    /\ responses # Unset

C16_GetAbsentOrLive ==
    [][ \A t \in CThreads :
          (c_loc[t].op = "get" /\ c_pc[t] # "release" /\ c_pc'[t] = "release") =>
             LET key  == c_loc[t].key
                 last == c_last[key]
                 at   == IF c_pc[t] = "get" THEN now ELSE c_loc[t].t_check
             IN  IF last = Absent \/ at > last.expires_at
                 THEN /\ c_loc'[t].result = PyNone
                      /\ c_store'[key] = Absent
                 ELSE /\ c_loc'[t].result = last.value
                      /\ c_store[key] # Absent
                      /\ c_store'[key] # Absent
                      /\ Entry(c_store'[key]).value = last.value
                      /\ Entry(c_store'[key]).expires_at = last.expires_at
                      /\ Entry(c_store'[key]).created_at = Entry(c_store[key]).created_at
                      /\ Entry(c_store'[key]).last_accessed = now
                      /\ Entry(c_store'[key]).last_accessed
                            >= Entry(c_store[key]).last_accessed
      ]_vars

\* a FileCache get has returned "v2" at the very second the entry expires
C16_Witness ==
    \E t \in CThreads :
        /\ c_kind = "file"
        /\ c_pc[t] = "release"
        /\ c_loc[t].op = "get"
        /\ c_loc[t].result = PyStr("v2")
        /\ c_loc[t].t_check = c_loc[t].item.expires_at

\* positions of a cache call inside `with self.lock:`
InLock ==
    {"get", "get_expired", "get_hit", "set", "delete", "clear", "cleanup",
     "cleanup_remove", "release"}

\* the entry stored under key k in store st, as a dict
EntryIn(st, k) == IF c_kind = "file" THEN st[k].pickle ELSE st[k]

\* the keys of store st that hold an entry past its expires_at at time at
ExpiredIn(st, at) ==
    {k \in CKeys : st[k] # Absent /\ at > EntryIn(st, k).expires_at}

\* the call of thread t, about to return, has done to the store it found
\* (before) and returned exactly what the call does when it runs alone
AsIfAlone(t) ==
    LET loc  == c_loc[t]
        pre  == loc.before
        key  == loc.key
        same == \A k \in CKeys \ {key} : c_store[k] = pre[k]
    IN  CASE loc.op = "get" ->
               /\ same
               /\ IF pre[key] = Absent
                  THEN c_store[key] = Absent /\ loc.result = PyNone
                  ELSE IF loc.t_check > EntryIn(pre, key).expires_at
                  THEN c_store[key] = Absent /\ loc.result = PyNone
                  ELSE /\ loc.result = EntryIn(pre, key).value
                       /\ c_store[key] # Absent
                       /\ \E at \in loc.t_check..now :
                             EntryIn(c_store, key) =
                                [EntryIn(pre, key) EXCEPT !.last_accessed = at]
          [] loc.op = "set" ->
               /\ same
               /\ c_store[key] # Absent
               /\ \E at \in (loc.expires_at - loc.ttl)..now :
                     EntryIn(c_store, key) =
                        [value |-> loc.value, expires_at |-> loc.expires_at,
                         created_at |-> at, last_accessed |-> at]
          [] loc.op = "delete" ->
               /\ same
               /\ c_store[key] = Absent
               /\ loc.result = PyBool(pre[key] # Absent)
          [] loc.op = "clear" ->
               \A k \in CKeys : c_store[k] = Absent
          [] loc.op = "cleanup" ->
               /\ \A k \in CKeys :
                     c_store[k] = (IF k \in ExpiredIn(pre, loc.t_check)
                                   THEN Absent ELSE pre[k])
               /\ loc.result = PyInt(Cardinality(ExpiredIn(pre, loc.t_check)))

\* C17: the calls threads make on one cache instance take effect one at a
\* time: at most one thread is inside a call's locked body, only that thread
\* changes the store, every call returns having done what it does when run
\* alone on the store it found, and cleanup removes no entry that was live
\* when it examined it.
C17_CallsAreAtomic ==
    /\ [](/\ Cardinality({t \in CThreads : c_pc[t] \in InLock}) <= 1
          /\ \A t \in CThreads : c_pc[t] \in InLock => c_lock = t
          /\ \A t \in CThreads : c_pc[t] = "release" => AsIfAlone(t)
          /\ \A t \in CThreads :
                (c_pc[t] = "release" /\ c_loc[t].op = "cleanup") =>
                   \A k \in CKeys :
                      (c_loc[t].before[k] # Absent /\ c_store[k] = Absent) =>
                         c_loc[t].t_check > EntryIn(c_loc[t].before, k).expires_at)
    /\ [][ c_store' # c_store =>
              \E t \in CThreads : c_lock = t /\ c_pc[t] \in InLock /\ c_pc'[t] # c_pc[t]
         ]_vars

\* cleanup is about to remove the expired entry of k1 while the other thread
\* waits for the lock to set k1 anew
C17_Witness ==
    /\ c_pc["t1"] = "cleanup_remove"
    /\ c_loc["t1"].expired_keys = {"k1"}
    /\ c_pc["t2"] = "acquire"
    /\ c_loc["t2"].op = "set"
    /\ c_loc["t2"].key = "k1"
    /\ c_loc["t2"].expires_at >= now

\* C15: every call of the wrapped pure method returns what the method itself
\* returns for the same receiver and argument, whatever calls with other
\* arguments or receivers were made on the same cache.
C15_CachedReturnsF ==
    d_last # Unset => d_last.result = describe(d_last.self, d_last.x)

\* the statuses on which a request is to be tried again
RetryStatuses == {408, 429, 500, 502, 503, 504}
Retryable(met) == met = TransportError \/ met.status \in RetryStatuses

\* C18: a call makes at most max_retries attempts, and every attempt that
\* is followed by another one met a transport error or a status of
\* RetryStatuses; an attempt that met another 4xx status is the last one.
C18_RetryOnlyRetryable ==
    \A i \in DOMAIN h_task :
       /\ Len(h_task[i].log) <= h_max_retries
       /\ \A k \in 1..Len(h_task[i].log) - 1 : Retryable(h_task[i].log[k])

\* C19: async_get_multiple returns as many elements as urls has, the i-th
\* being the text (or None for a failure) of the request for urls[i].
C19_ResultsInUrlOrder ==
    (h_call = "async_get_multiple" /\ h_result # Unset) =>
        /\ Len(h_result.value) = Len(h_urls)
        /\ \A i \in 1..Len(h_urls) :
              h_result.value[i] = (IF h_task[i].state = "returned" THEN h_task[i].value
                             ELSE PyNone)

\* the data results['sources'] holds for the adapter at position i, Absent
\* when it has no entry
SourceData(i) ==
    IF \E k \in 1..Len(t_result.sources) : t_result.sources[k][1] = Sources[i]
    THEN t_result.sources[CHOOSE k \in 1..Len(t_result.sources) :
                             t_result.sources[k][1] = Sources[i]][2]
    ELSE Absent

\* C20: an adapter with a task is called at most max_retries times and never
\* after a call that succeeded, an adapter without a task is never called;
\* an adapter whose max_retries calls all failed returns its empty result,
\* and the run ends without raising, holding for every adapter with a task
\* what its helper returned: the fetched data or the empty result.
C20_RetriesBoundedRunSurvives ==
    /\ \A i \in 1..Len(Sources) :
          LET log == t_task[i].log
          IN  /\ Len(log) <= t_max_retries
              /\ \A k \in 1..Len(log) - 1 : log[k] = "error"
              /\ i \notin TaskPositions => log = <<>>
              /\ t_task[i].state # "raised"
              /\ (t_task[i].state = "returned" /\ \A k \in 1..Len(log) : log[k] = "error")
                    => /\ Len(log) = t_max_retries
                       /\ t_task[i].value = EmptyResult(Sources[i])
    /\ t_result # Unset =>
          /\ ~t_result.raised
          /\ Len(t_result.sources) = Len(t_tasks)
          /\ \A i \in 1..Len(Sources) :
                SourceData(i) =
                   (IF i \notin TaskPositions THEN Absent
                    ELSE IF t_task[i].log # <<>> /\ t_task[i].log[Len(t_task[i].log)] = "ok"
                    THEN Fetched(Sources[i])
                    ELSE EmptyResult(Sources[i]))

\* the run ended with news exhausted after three failed calls and portal
\* fetched at its second call
C20_Witness ==
    /\ t_result # Unset
    /\ t_max_retries = 3
    /\ t_task[2].log = <<"error", "error", "error">>
    /\ t_task[3].log = <<"error", "ok">>
    /\ SourceData(2) = EmptyResult("news")
    /\ SourceData(3) = Fetched("portal")

\* C30: for every max_retries, 0 included, get and async_get end either
\* with the response of a successful request or with the error of their
\* last request; they never return None, never end without a request made,
\* and never sleep after the request that failed last.
C30_ResponseOrLastError ==
    (h_call \in {"get", "async_get"} /\ h_result # Unset) =>
        LET task == h_task[1]
        IN  /\ task.log # <<>>
            /\ h_result.value # PyNone
            /\ \/ /\ task.log[Len(task.log)] = Response(200)
                  /\ h_result.value = [text |-> h_urls[1]]
               \/ /\ task.log[Len(task.log)] # Response(200)
                  /\ h_result.value = [exception |-> task.log[Len(task.log)]]
            /\ task.slept < Len(task.log)

\* the snapshot last published with success while api_server.py serves: the
\* keywords of a bootstrap refresh that collected records, else what the
\* cache file held at start, else nothing
Succeeded == boot_local # Unset /\ boot_local.result.trends # <<>>
LoadedSnapshot ==
    IF cache_file # Unset THEN DictUpdate(EmptyCache, JsonLoad(cache_file))
    ELSE EmptyCache

\* C21: the hot keywords, topics and status queries answer with success
\* whatever the refreshes did; before the first refresh that collected
\* records they answer with the snapshot found at start (an empty list and
\* last_update null when there was none), afterwards with the keywords
\* that refresh published.
C21_QueriesServeLastGood ==
    [][ (responses' # responses /\ responses'.op \in {"hot_keywords", "topics", "status"}) =>
          LET r == responses'
              hot == IF Succeeded THEN boot_local.hot_keywords
                     ELSE LoadedSnapshot.hot_keywords
          IN  /\ r.success
              /\ IF Succeeded THEN r.last_update # PyNone
                 ELSE r.last_update = LoadedSnapshot.last_update
              /\ r.op = "hot_keywords" => \E n \in {1, 30} : r.data = Take(hot, n)
              /\ r.op = "topics" => r.data = LoadedSnapshot.topics
              /\ r.op = "status" => r.total_keywords = Len(hot)
      ]_vars

\* max(21 - rank, 1) for the rank an entry records for each of its sources
RankScore(e) ==
    [s \in DOMAIN e.source_ranks |->
        IF RankBase - e.source_ranks[s] > 1 THEN RankBase - e.source_ranks[s] ELSE 1]

\* C22: every returned entry has as score the sum over its sources of
\* max(21 - source_ranks[s], 1) and has at least min_sources sources; the
\* entries are in descending score order and carry their 1-based position
\* as rank.
C22_CombinedScores ==
    p_combined # Unset =>
        LET out == p_combined.value
        IN  /\ \A i \in DOMAIN out :
                  /\ out[i].score = SumOver(out[i].sources, RankScore(out[i]))
                  /\ Cardinality(out[i].sources) >= p_combined.min_sources
                  /\ out[i].rank = i
            /\ \A i \in DOMAIN out : \A j \in DOMAIN out :
                  i < j => out[i].score >= out[j].score

\* C23: after shutdown has begun (is_collecting = False, main_pc "save") no
\* background iteration starts collecting; save_cache writes the file only
\* when no iteration is between the start of its collection and its end;
\* and no step at or after the write changes hot_keywords, topics or
\* last_update.
C23_ShutdownQuiesces ==
    [][ /\ (main_pc \in {"save", "exited"} /\ bg_pc # "collecting") => bg_pc' # "collecting"
        /\ (main_pc = "save" /\ main_pc' = "exited") => bg_pc \notin {"collecting", "line53"}
        /\ (main_pc = "save" /\ main_pc' = "exited") \/ (main_pc = "exited" /\ main_pc' = "exited")
              => /\ trends_cache'.hot_keywords = trends_cache.hot_keywords
                 /\ trends_cache'.topics = trends_cache.topics
                 /\ trends_cache'.last_update = trends_cache.last_update
      ]_vars

\* C24: whenever a run of collect_trends publishes its timestamp, the
\* timestamp is not earlier than the one it replaces and the hot_keywords
\* then in data_cache are the ones that run built.
C24_PublishesOrdered ==
    [][ \A t \in DOMAIN a_pc :
          (a_pc[t] = "line299" /\ a_pc'[t] # "line299") =>
              /\ data_cache'.last_update # PyNone
              /\ data_cache.last_update # PyNone =>
                    FromIso(data_cache'.last_update) >= FromIso(data_cache.last_update)
              /\ data_cache'.hot_keywords = a_local[t].hot_keywords
      ]_vars

\* position of an adapter name in a task list
IndexIn(list, name) == CHOOSE i \in DOMAIN list : list[i] = name

\* C25: the records collect_all returns stand in the order of its task list
\* (youtube, naver, news, google, daum), each adapter's records together
\* and as it returned them, whatever the order the tasks finished in; the
\* sources of collect_all_trends likewise stand in the order of its tasks.
C25_FixedAdapterOrder ==
    /\ g_out # Unset =>
          LET tr == g_out.trends
          IN  /\ \A p \in DOMAIN tr : \A q \in DOMAIN tr :
                    p < q => IndexIn(Adapters, tr[p].source) <= IndexIn(Adapters, tr[q].source)
              /\ \A i \in DOMAIN Adapters :
                    SelectSeq(tr, LAMBDA r : r.source = Adapters[i]) =
                       (IF g_task[i] = "list" THEN AdapterData(Adapters[i]) ELSE <<>>)
    /\ t_result # Unset =>
          /\ Len(t_result.sources) = Len(t_tasks)
          /\ \A k \in DOMAIN t_result.sources : t_result.sources[k][1] = t_tasks[k]
          /\ \A p \in DOMAIN t_tasks : \A q \in DOMAIN t_tasks :
                p < q => IndexIn(Sources, t_tasks[p]) < IndexIn(Sources, t_tasks[q])

\* collect_all returned after daum finished first and youtube last, both
\* with a list, and news with an exception
C25_Witness ==
    /\ g_out # Unset
    /\ g_done[1] = 5 /\ g_done[5] = 1
    /\ g_task[1] = "list" /\ g_task[5] = "list" /\ g_task[3] = "exception"
    /\ Len(g_out.trends) >= 2

\* C26: every record of the news RSS adapter has a score >= 0, namely
\* max(80 - 2*idx, 0) for the item at index idx, for each of the up to 50
\* items read.
C26_NewsScoresNonNegative ==
    r_trends # Unset =>
        \A k \in DOMAIN r_trends.value :
            LET rec == r_trends.value[k]
            IN  /\ rec.idx < 50
                /\ rec.score >= 0
                /\ rec.score = (IF 80 - 2 * rec.idx > 0 THEN 80 - 2 * rec.idx ELSE 0)

\* C27: with --runs N > 0 run_daemon never starts more than N runs, and
\* when it ends without a stop signal it has started exactly N, runs that
\* raised included; with --runs 0 it ends only after a stop signal; and
\* once the stop signal has arrived no further run is started.
C27_DaemonRunCount ==
    /\ [](/\ m_args.runs > 0 => m_started <= m_args.runs
          /\ (m_pc = "done" /\ ~stop_requested) =>
                (m_args.runs > 0 /\ m_started = m_args.runs))
    /\ [][stop_requested => m_started' = m_started]_vars

\* a FileCache used from one thread on a key whose file may be damaged
DamagedSpecInit ==
    /\ DamagedInit
    /\ CacheIdle /\ CachedIdle /\ HttpIdle /\ CollectorIdle
    /\ CombineIdle /\ GatherIdle /\ NewsIdle /\ DaemonIdle
    /\ f_pc = "idle" /\ all_trends = <<>> /\ analysis = Unset
    /\ ApiIdle /\ AppIdle /\ runs = 0 /\ now = StartTime

SpecDamaged == DamagedSpecInit /\ [][DamagedNext]_vars

\* C28: FileCache.get(key) on a cache file that cannot be decoded into a
\* valid record (truncated, garbage bytes, or a record lacking expires_at)
\* returns None and deletes the file, never raising to the caller; a get
\* that directly follows a set of the key returns the value set.
C28_DamagedFileIsDropped ==
    [][(k_calls' # k_calls /\ k_last'.op = "get") =>
         /\ k_file \in DamagedFiles =>
               /\ k_last'.raised = "none"
               /\ k_last'.value = PyNone
               /\ k_file' = Absent
         /\ (k_last # Unset /\ k_last.op = "set"
               /\ now <= PickleLoad(k_file).expires_at) =>
               /\ k_last'.raised = "none"
               /\ k_last'.value = PickleLoad(k_file).value]_vars

\* the bookmark requests of a running server
BookmarksSpecInit == BookmarksInit /\ FIdle /\ AppIdle /\ runs = 0 /\ now = StartTime

BookmarksNext == handle_bookmarks \/ ApiTick

SpecBookmarks == BookmarksSpecInit /\ [][BookmarksNext]_vars

\* C29: after any sequence of bookmark POST and DELETE requests the stored
\* bookmarks have pairwise distinct ids, so that a DELETE removes at most
\* one bookmark; a bookmark request leaves hot_keywords, topics and
\* last_update as they were.
C29_BookmarkIdsDistinct ==
    /\ [](\A i, j \in DOMAIN trends_cache.bookmarks :
            trends_cache.bookmarks[i].id = trends_cache.bookmarks[j].id => i = j)
    /\ [][ /\ Len(trends_cache'.bookmarks) >= Len(trends_cache.bookmarks) - 1
           /\ trends_cache'.hot_keywords = trends_cache.hot_keywords
           /\ trends_cache'.topics = trends_cache.topics
           /\ trends_cache'.last_update = trends_cache.last_update ]_vars

====
